---- MODULE Spec2Model ----
(***************************************************************************)
(* Import pipeline of gemkeep (src-tauri/src/import, photos/repository):   *)
(* scan -> extract -> pair -> cluster -> persist -> thumbnails, plus the   *)
(* restack-only entry point, over a model of the project's SQLite store.   *)
(***************************************************************************)
EXTENDS Integers, Sequences, FiniteSets, TLC

VARIABLES
    fs,              \* files on disk: path -> content (Absent when the file does not exist)
    db,              \* the project store: [photos, logical_photos, stacks] (sets of rows)
    cache,           \* thumbnail cache directory: logical_photo id -> source path of <id>.jpg
    cancel,          \* AppState.cancel_indexing / PipelineControls.cancel
    pause,           \* AppState.pause_indexing / PipelineControls.pause
    status,          \* IndexingStatus behind the mutex
    done_counter,    \* thumbnails_done_counter (AtomicUsize)
    pc,              \* position of the worker inside run_pipeline_inner
    cfg,             \* PipelineConfig of the current run: folder_paths, burst_gap_secs
    stats,           \* ImportStats of the current run
    scanned_paths,   \* run_pipeline_inner local
    existing_paths,  \* run_pipeline_inner local
    new_files,       \* run_pipeline_inner local
    cursor,          \* index of the folder / file / target the worker is at
    all_files,       \* input of detect_pairs
    groups,          \* output of detect_pairs, input of assign_stacks_by_burst
    assigned,        \* output of assign_stacks_by_burst
    targets,         \* lp_thumb_targets still to be handled by the pool
    in_flight,       \* targets a pool thread is generating a thumbnail for
    held,            \* AppState mutexes: lock -> the thread that holds it
    calls,           \* command threads: thread -> the command it runs and where it is
    bg,              \* a worker thread that a later start_indexing has overtaken
    pre,             \* history: store and disk as they were when the current operation began
    last,            \* history: summary of the operation that ended before the current one
    op,              \* history: what the current / latest operation is and how it went
    runs,            \* history: number of pipeline runs started so far
    restacks,        \* history: number of restacks done so far
    writes,          \* history: number of changes made to the files on disk so far
    faults,          \* history: number of store statements that have failed so far
    resumes          \* history: number of resume_thumbnails workers started so far

vars == <<fs, db, cache, cancel, pause, status, done_counter, pc, cfg, stats,
          scanned_paths, existing_paths, new_files, cursor, all_files, groups,
          assigned, targets, in_flight, held, calls, bg, pre, last,
                   op, runs,
                   restacks,
                   writes, faults, resumes>>

----------------------------------------------------------------------------
(* Bounds of the model                                                     *)

MaxTime == 1          \* capture times (seconds) found in files on disk: 0..MaxTime
MaxGap == 0           \* burst_gap_secs of a pipeline run: 0..MaxGap
MaxRestackGap == 1    \* burst_gap_secs of a restack: 0..MaxRestackGap
MaxRuns == 2          \* pipeline runs started in one behaviour
MaxRestacks == 2      \* restacks done in one behaviour
MaxWrites == 1        \* changes to the files on disk in one behaviour
MaxFaults == 1        \* store statements that fail in one behaviour
MaxResumes == 2       \* calls of resume_thumbnails in one behaviour
MaxPairFiles == 3     \* longest input list of the detect_pairs specification
MaxStackGroups == 4   \* longest input list of the assign_stacks specification
MaxStackTime == 3     \* capture times of the assign_stacks specification: 0..MaxStackTime
MaxStackGap == 2      \* burst_gap_secs of the assign_stacks specification: 0..MaxStackGap
MaxErrors == 102      \* errors of one run in the log_error specification

----------------------------------------------------------------------------
(* Option<T>, sequences                                                    *)

None == <<>>
Some(x) == <<x>>
is_some(o) == o # None
unwrap(o) == o[1]

Range(s) == {s[i] : i \in 1..Len(s)}

SetMax(S) == CHOOSE m \in S : \A x \in S : x <= m

SetMin(S) == CHOOSE m \in S : \A x \in S : m <= x

RECURSIVE Concat(_)
Concat(ss) == IF ss = <<>> THEN <<>> ELSE Head(ss) \o Concat(Tail(ss))

RECURSIVE RowsById(_)
\* rows of a table in rowid order
RowsById(S) ==
    IF S = {} THEN <<>>
    ELSE LET r == CHOOSE x \in S : \A y \in S : x.id <= y.id
         IN <<r>> \o RowsById(S \ {r})

----------------------------------------------------------------------------
(* Paths and formats (scanner.rs, pipeline.rs:164-174)                     *)

MkPath(d, stem, ext) == [dir |-> d, stem |-> stem, ext |-> ext]

to_lowercase(s) ==
    CASE s = "A" -> "a"
      [] s = "JPG" -> "jpg"
      [] s = "CR2" -> "cr2"
      [] OTHER -> s

RAW_EXTENSIONS == {"cr2", "cr3", "arw"}
JPEG_EXTENSIONS == {"jpg", "jpeg"}

detect_format(path) ==
    LET ext == to_lowercase(path.ext)
    IN IF ext \in JPEG_EXTENSIONS THEN Some("jpeg")
       ELSE IF ext \in RAW_EXTENSIONS THEN Some("raw")
       ELSE None

file_stem_lower(path) == to_lowercase(path.stem)
parent(path) == path.dir

----------------------------------------------------------------------------
(* Metadata extraction (exif.rs)                                           *)

\* ExifData::empty
ExifEmpty == [capture_time |-> None, camera_model |-> None, lens |-> None,
              orientation |-> None]

\* Content of a file on disk: NoExif (unreadable or no metadata container) or
\* the second at which it was taken; camera, lens and orientation are read
\* from the same container.
NoExif == <<"noexif">>
Absent == <<"absent">>
TakenAt(t) == <<"exif", t>>

\* a file whose bytes make the metadata reader and the decoder panic
Malformed == <<"malformed">>

\* what a closure run under catch_unwind came to
Returned(v) == [panicked |-> FALSE, value |-> <<v>>]
Panicked == [panicked |-> TRUE, value |-> <<>>]

\* exif.rs:25-31, exif.rs:120 and thumbnails.rs:13-31: std::panic::catch_unwind
\* with the value of the Err arm
catch_unwind(r, on_panic) == IF r.panicked THEN on_panic ELSE r.value[1]

\* exif.rs:34-62 and 129-192: extract_jpeg_exif_inner, extract_raw_exif_inner
extract_exif_inner(content) ==
    IF content = Malformed THEN Panicked
    ELSE IF content \in {NoExif, Absent} THEN Returned(ExifEmpty)
    ELSE Returned([capture_time |-> Some(content[2]), camera_model |-> Some("cam"),
                   lens |-> Some("lens"), orientation |-> Some(1 + (content[2] % 8))])

\* exif.rs:24-32, 119-127 and 194-199
extract_exif(content) == catch_unwind(extract_exif_inner(content), ExifEmpty)

\* pipeline.rs:162-185
MkScannedFile(path, format, e) ==
    [path |-> path, format |-> format, capture_time |-> e.capture_time,
     camera_model |-> e.camera_model, lens |-> e.lens,
     orientation |-> e.orientation,
     base_name |-> file_stem_lower(path), dir |-> parent(path)]

\* chrono: DateTime<Utc>::to_rfc3339 and DateTime::parse_from_rfc3339;
\* a stored string that is not RFC 3339 does not parse
to_rfc3339(t) == <<"rfc3339", t>>
parse_from_rfc3339(s) == IF Len(s) = 2 /\ s[1] = "rfc3339" THEN Some(s[2]) ELSE None

----------------------------------------------------------------------------
(* Pair detection (pairs.rs)                                               *)

\* the RAW file preferred
representative_raw_first(g) == IF is_some(g.raw) THEN unwrap(g.raw) ELSE unwrap(g.jpeg)

representative(g) == IF is_some(g.jpeg) THEN unwrap(g.jpeg) ELSE unwrap(g.raw)

capture_time(g) == representative(g).capture_time

single_group(f) ==
    LET is_jpeg == f.format = "jpeg"
    IN [jpeg |-> IF is_jpeg THEN Some(f) ELSE None,
        raw |-> IF ~is_jpeg THEN Some(f) ELSE None,
        is_pair |-> FALSE]

MapSingles(members) == [i \in 1..Len(members) |-> single_group(members[i])]

IsJpeg(f) == f.format = "jpeg"
IsRaw(f) == f.format # "jpeg"

make_pair_always(members) ==
    LET jpegs == SelectSeq(members, IsJpeg)
        raws == SelectSeq(members, IsRaw)
    IN IF Len(jpegs) >= 1 /\ Len(raws) >= 1
       THEN << [jpeg |-> Some(jpegs[1]), raw |-> Some(raws[1]), is_pair |-> TRUE] >>
       ELSE << [jpeg |-> Some(members[1]), raw |-> Some(members[2]), is_pair |-> TRUE] >>

make_pair(members) ==
    LET jpegs == SelectSeq(members, IsJpeg)
        raws == SelectSeq(members, IsRaw)
    IN IF Len(jpegs) = 1 /\ Len(raws) = 1
       THEN << [jpeg |-> Some(jpegs[1]), raw |-> Some(raws[1]), is_pair |-> TRUE] >>
       ELSE MapSingles(jpegs \o raws)

split_keep_two(members) == MapSingles(SubSeq(members, 1, 2))

split_to_singles(members) == MapSingles(members)

resolve_group(members) ==
    CASE Len(members) = 0 -> <<>>
      [] Len(members) = 1 -> << single_group(members[1]) >>
      [] Len(members) = 2 -> make_pair(members)
      [] OTHER -> split_to_singles(members)

KeyOf(f) == <<f.dir, f.base_name>>

KeysOf(files) == {KeyOf(files[i]) : i \in 1..Len(files)}

\* The iteration orders of the HashMap of buckets: every enumeration of its keys
KeyOrders(files) ==
    LET K == KeysOf(files)
        n == Cardinality(K)
    IN {o \in [1..n -> K] : \A i, j \in 1..n : i # j => o[i] # o[j]}

Bucket(files, key) == LET HasKey(f) == KeyOf(f) = key IN SelectSeq(files, HasKey)

\* `order` is the order in which the HashMap hands out its buckets
detect_pairs(files, order) ==
    Concat([i \in 1..Len(order) |-> resolve_group(Bucket(files, order[i]))])

----------------------------------------------------------------------------
(* Burst clustering (stacks.rs)                                            *)

HasTime(g) == is_some(capture_time(g))
HasNoTime(g) == ~is_some(capture_time(g))

RECURSIVE InsertByTime(_, _)
\* stable: g goes behind every element whose key is not larger
InsertByTime(sorted, g) ==
    IF sorted = <<>> THEN <<g>>
    ELSE IF unwrap(capture_time(Head(sorted))) <= unwrap(capture_time(g))
         THEN <<Head(sorted)>> \o InsertByTime(Tail(sorted), g)
         ELSE <<g>> \o sorted

RECURSIVE sort_by_capture_time(_)
sort_by_capture_time(gs) ==
    IF gs = <<>> THEN <<>>
    ELSE InsertByTime(sort_by_capture_time(SubSeq(gs, 1, Len(gs) - 1)), gs[Len(gs)])

RECURSIVE WalkTimedFromOrigin(_, _, _, _, _)
WalkTimedFromOrigin(with_time, i, stack_index, last_time, burst_gap_secs) ==
    IF i > Len(with_time) THEN <<>>
    ELSE LET t == unwrap(capture_time(with_time[i]))
             bump == is_some(last_time) /\ t - unwrap(last_time) > burst_gap_secs
             idx == IF bump THEN stack_index + 1 ELSE stack_index
             org == IF bump \/ ~is_some(last_time) THEN Some(t) ELSE last_time
         IN << <<with_time[i], idx>> >>
              \o WalkTimedFromOrigin(with_time, i + 1, idx, org, burst_gap_secs)

RECURSIVE WalkTimed(_, _, _, _, _)
\* the loop over with_time, from element i on
WalkTimed(with_time, i, stack_index, last_time, burst_gap_secs) ==
    IF i > Len(with_time) THEN <<>>
    ELSE LET t == unwrap(capture_time(with_time[i]))
             d == IF is_some(last_time) THEN t - unwrap(last_time) ELSE 0
             gap == IF d >= 0 THEN d ELSE 0 - d      \* unsigned_abs
             idx == IF is_some(last_time) /\ gap > burst_gap_secs
                    THEN stack_index + 1 ELSE stack_index
         IN << <<with_time[i], idx>> >>
              \o WalkTimed(with_time, i + 1, idx, Some(t), burst_gap_secs)

UntimedIndexShared(stack_index, k) == stack_index + 1

\* index of the k-th untimed group when the timed walk ended at stack_index
UntimedIndex(stack_index, k) == stack_index + k

assign_stacks_clean(gs, burst_gap_secs) ==
    LET with_time == sort_by_capture_time(SelectSeq(gs, HasTime))
        without_time == SelectSeq(gs, HasNoTime)
        timed == WalkTimed(with_time, 1, 0, None, burst_gap_secs)
        stack_index == IF timed = <<>> THEN 0 ELSE timed[Len(timed)][2]
    IN timed \o [k \in 1..Len(without_time) |->
                    <<without_time[k], UntimedIndex(stack_index, k)>>]

\* a clusterer whose limit is one second wider than asked
assign_stacks_wider(gs, burst_gap_secs) == assign_stacks_clean(gs, burst_gap_secs + 1)

\* stacks.rs:53
assign_stacks_by_burst(gs, burst_gap_secs) == assign_stacks_clean(gs, burst_gap_secs)

----------------------------------------------------------------------------
(* The project store (db/migrations.rs, photos/repository.rs)              *)

ProjectId == 1

\* ImportStats::default()
StatsDefault ==
    [total_files_scanned |-> 0, imported |-> 0, skipped_existing |-> 0,
     skipped_unsupported |-> 0, errors |-> 0, pairs_detected |-> 0,
     stacks_generated |-> 0, logical_photos |-> 0, error_log |-> <<>>,
     cancelled |-> FALSE]

ErrorLogCap == 100

\* SQLite rowid of a new row in a table with INTEGER PRIMARY KEY and no
\* AUTOINCREMENT: one above the largest rowid present, 1 in an empty table
NextRowId(rows) == IF rows = {} THEN 1 ELSE SetMax({r.id : r \in rows}) + 1

Ids(rows) == {r.id : r \in rows}

\* INSERT OR REPLACE in place of INSERT OR IGNORE
insert_photo_replace(photos, path, format, ctime, orientation, camera_model, lens) ==
    LET kept == {r \in photos : r.path # path}
        id == NextRowId(photos)
    IN [photos |-> kept \cup {[id |-> id, path |-> path, format |-> format,
                               capture_time |-> ctime, orientation |-> orientation,
                               camera_model |-> camera_model, lens |-> lens,
                               logical_photo_id |-> None]},
        id |-> id]

insert_photo(photos, path, format, ctime, orientation, camera_model, lens) ==
    LET hit == {r \in photos : r.path = path}
        id == NextRowId(photos)
    IN IF hit # {}
       THEN [photos |-> photos, id |-> (CHOOSE r \in hit : TRUE).id]
       ELSE [photos |-> photos \cup {[id |-> id, path |-> path, format |-> format,
                                      capture_time |-> ctime, orientation |-> orientation,
                                      camera_model |-> camera_model, lens |-> lens,
                                      logical_photo_id |-> None]},
             id |-> id]

insert_scanned_file(photos, file) ==
    insert_photo(photos, file.path, file.format,
                 IF is_some(file.capture_time)
                 THEN Some(to_rfc3339(unwrap(file.capture_time))) ELSE None,
                 file.orientation, file.camera_model, file.lens)

set_logical_photo_id(photos, photo_id, logical_photo_id) ==
    {IF r.id = photo_id THEN [r EXCEPT !.logical_photo_id = Some(logical_photo_id)] ELSE r
        : r \in photos}

insert_stack(stacks, project_id) ==
    LET id == NextRowId(stacks)
    IN [stacks |-> stacks \cup {[id |-> id, project_id |-> project_id]}, id |-> id]

insert_logical_photo(lps, project_id, representative_photo_id, stack_id) ==
    LET id == NextRowId(lps)
    IN [logical_photos |-> lps \cup {[id |-> id, project_id |-> project_id,
                                       representative_photo_id |-> representative_photo_id,
                                       stack_id |-> Some(stack_id)]},
        id |-> id]

\* The three statements of clear_stacks_and_logical_photos, one by one
ClearDetachPhotos(d, project_id) ==
    LET lp_ids == {lp.id : lp \in {l \in d.logical_photos : l.project_id = project_id}}
    IN [d EXCEPT !.photos =
          {IF is_some(r.logical_photo_id) /\ unwrap(r.logical_photo_id) \in lp_ids
           THEN [r EXCEPT !.logical_photo_id = None] ELSE r : r \in d.photos}]

ClearDeleteLogicalPhotos(d, project_id) ==
    [d EXCEPT !.logical_photos = {l \in @ : l.project_id # project_id}]

ClearDeleteStacks(d, project_id) ==
    [d EXCEPT !.stacks = {s \in @ : s.project_id # project_id}]

\* F: the ordinals of the statements of this operation that fail; n: statements
\* issued so far.  Returns the store, the statement count and Ok / Err.
clear_stacks_and_logical_photos(d, project_id, n, F) ==
    IF n + 1 \in F THEN [db |-> d, n |-> n + 1, ok |-> FALSE]
    ELSE IF n + 2 \in F
         THEN [db |-> ClearDetachPhotos(d, project_id), n |-> n + 2, ok |-> FALSE]
    ELSE IF n + 3 \in F
         THEN [db |-> ClearDeleteLogicalPhotos(ClearDetachPhotos(d, project_id), project_id),
               n |-> n + 3, ok |-> FALSE]
    ELSE [db |-> ClearDeleteStacks(
                    ClearDeleteLogicalPhotos(ClearDetachPhotos(d, project_id), project_id),
                    project_id),
          n |-> n + 3, ok |-> TRUE]

\* the join taken through representative_photo_id: a pair's second file is missed
list_photo_paths_of_representatives(d, project_id) ==
    {r.path : r \in {p \in d.photos :
        \E l \in d.logical_photos :
            l.representative_photo_id = p.id /\ l.project_id = project_id}}

\* JOIN photos / logical_photos on logical_photo_id
list_photo_paths_for_project(d, project_id) ==
    {r.path : r \in {p \in d.photos :
        /\ is_some(p.logical_photo_id)
        /\ \E l \in d.logical_photos :
              l.id = unwrap(p.logical_photo_id) /\ l.project_id = project_id}}

RowToScannedFile(r) ==
    [path |-> r.path, format |-> r.format,
     capture_time |-> IF is_some(r.capture_time)
                      THEN parse_from_rfc3339(unwrap(r.capture_time)) ELSE None,
     camera_model |-> r.camera_model, lens |-> r.lens, orientation |-> r.orientation,
     base_name |-> file_stem_lower(r.path), dir |-> parent(r.path)]

KnownFormat(r) == r.format \in {"jpeg", "raw"}

\* a run that pairs the new files only
load_no_existing_files(d) == <<>>

\* repository.rs:421-491: every row of photos, of any project and folder
load_existing_scanned_files(d) ==
    LET rows == SelectSeq(RowsById(d.photos), KnownFormat)
    IN [i \in 1..Len(rows) |-> RowToScannedFile(rows[i])]

----------------------------------------------------------------------------
(* Persistence stage (pipeline.rs:249-513)                                 *)

\* a log that keeps the latest entries instead of the first
log_error_keep_latest(st, msg) ==
    [st EXCEPT !.errors = @ + 1,
               !.error_log = IF Len(@) < ErrorLogCap THEN Append(@, msg)
                             ELSE Append(Tail(@), msg)]

log_error(st, msg) ==
    [st EXCEPT !.errors = @ + 1,
               !.error_log = IF Len(@) < ErrorLogCap THEN Append(@, msg) ELSE @]

\* A persistence state threads the store, the statistics, the number of
\* statements issued and the thumbnail targets through the loops.
Target(lp_id, file) ==
    [lp_id |-> lp_id, path |-> file.path, format |-> file.format,
     orientation |-> file.orientation]

\* pipeline.rs:441-478
PersistOther(st, group, rep, lp_id, track_imports, paths_ref, F) ==
    LET others == (IF is_some(group.raw) /\ unwrap(group.raw).path # rep.path
                   THEN <<unwrap(group.raw)>> ELSE <<>>)
                   \o (IF is_some(group.jpeg) /\ unwrap(group.jpeg).path # rep.path
                       THEN <<unwrap(group.jpeg)>> ELSE <<>>)
    IN IF others = <<>> THEN st
       ELSE LET other == others[1]
                s1 == [st EXCEPT !.n = @ + 1]
            IN IF s1.n \in F
               THEN [s1 EXCEPT !.stats = log_error(@, "insert paired photo")]
               ELSE LET ins == insert_scanned_file(s1.db.photos, other)
                        s2 == [s1 EXCEPT !.db.photos = ins.photos, !.n = @ + 1]
                        s3 == IF s2.n \in F THEN s2
                              ELSE [s2 EXCEPT !.db.photos =
                                       set_logical_photo_id(@, ins.id, lp_id)]
                    IN IF track_imports /\ other.path \notin paths_ref
                       THEN [s3 EXCEPT !.stats.imported = @ + 1]
                       ELSE s3

\* one iteration of the loop of persist_groups_to_db
PersistGroup(st, group, stack_idx, stack_id_map, project_id, track_imports, paths_ref, F) ==
    LET stack_db_id == IF stack_idx + 1 <= Len(stack_id_map)
                       THEN stack_id_map[stack_idx + 1] ELSE None
        rep == representative(group)
        s1 == [st EXCEPT !.n = @ + 1]
    IN IF ~is_some(stack_db_id)
       THEN [st EXCEPT !.stats = log_error(@, "no stack DB id")]
       ELSE IF s1.n \in F
       THEN [s1 EXCEPT !.stats = log_error(@, "insert photo")]
       ELSE LET ins == insert_scanned_file(s1.db.photos, rep)
                s2 == [s1 EXCEPT !.db.photos = ins.photos,
                                 !.stats.imported =
                                    IF track_imports /\ rep.path \notin paths_ref
                                    THEN @ + 1 ELSE @,
                                 !.n = @ + 1]
            IN IF s2.n \in F
               THEN [s2 EXCEPT !.stats = log_error(@, "insert logical_photo")]
               ELSE LET lp == insert_logical_photo(s2.db.logical_photos, project_id,
                                                   ins.id, unwrap(stack_db_id))
                        s3 == [s2 EXCEPT !.db.logical_photos = lp.logical_photos,
                                         !.n = @ + 1]
                        s4 == IF s3.n \in F THEN s3
                              ELSE [s3 EXCEPT !.db.photos =
                                       set_logical_photo_id(@, ins.id, lp.id)]
                        s5 == IF group.is_pair
                              THEN PersistOther(s4, group, rep, lp.id, track_imports,
                                                paths_ref, F)
                              ELSE s4
                    IN [s5 EXCEPT !.targets = Append(@, Target(lp.id, rep))]

RECURSIVE PersistFrom(_, _, _, _, _, _, _, _)
PersistFrom(st, asg, i, stack_id_map, project_id, track_imports, paths_ref, F) ==
    IF i > Len(asg) THEN st
    ELSE PersistFrom(PersistGroup(st, asg[i][1], asg[i][2], stack_id_map, project_id,
                                  track_imports, paths_ref, F),
                     asg, i + 1, stack_id_map, project_id, track_imports, paths_ref, F)

\* existing_paths: Some(set) for an import, None for a restack
persist_groups_to_db(st, asg, stack_id_map, project_id, existing, F) ==
    PersistFrom(st, asg, 1, stack_id_map, project_id, is_some(existing),
                IF is_some(existing) THEN unwrap(existing) ELSE {}, F)

\* pipeline.rs:226-232 and 630-635
MaxStackIdx(asg) ==
    IF asg = <<>> THEN 0 ELSE SetMax({asg[i][2] : i \in 1..Len(asg)}) + 1

RECURSIVE PreCreateStacks(_, _, _, _, _, _)
\* pipeline.rs:258-274: st.map is stack_id_map
PreCreateStacks(st, idx, max_stack_idx, project_id, F, map) ==
    IF idx >= max_stack_idx THEN [st |-> st, map |-> map]
    ELSE LET s1 == [st EXCEPT !.n = @ + 1]
         IN IF s1.n \in F
            THEN PreCreateStacks([s1 EXCEPT !.stats = log_error(@, "insert stack")],
                                 idx + 1, max_stack_idx, project_id, F, map)
            ELSE LET ins == insert_stack(s1.db.stacks, project_id)
                 IN PreCreateStacks([s1 EXCEPT !.db.stacks = ins.stacks],
                                    idx + 1, max_stack_idx, project_id, F,
                                    [map EXCEPT ![idx + 1] = Some(ins.id)])

EmptyStackIdMap(max_stack_idx) ==
    [i \in 1..(IF max_stack_idx > 1 THEN max_stack_idx ELSE 1) |-> None]

----------------------------------------------------------------------------
(* Restack without rescanning (pipeline.rs:561-693)                        *)

\* repository::load_logical_photos_for_restack: (lp id, capture time of the
\* representative photo as stored) for each Logical Photo of the project
load_logical_photos_for_restack(d, project_id) ==
    LET lps == RowsById({l \in d.logical_photos : l.project_id = project_id})
        CtOf(l) == LET reps == {r \in d.photos : r.id = l.representative_photo_id}
                   IN IF reps = {} THEN None ELSE (CHOOSE r \in reps : TRUE).capture_time
    IN [i \in 1..Len(lps) |-> <<lps[i].id, CtOf(lps[i])>>]

\* repository::clear_stacks_only: detach every Logical Photo of the project
\* from its Stack, then delete the project's Stack rows
ClearOnlyDetach(d, project_id) ==
    [d EXCEPT !.logical_photos =
        {IF l.project_id = project_id THEN [l EXCEPT !.stack_id = None] ELSE l : l \in @}]

clear_stacks_only(d, project_id, n, F) ==
    IF n + 1 \in F THEN [db |-> d, n |-> n + 1, ok |-> FALSE]
    ELSE IF n + 2 \in F
         THEN [db |-> ClearOnlyDetach(d, project_id), n |-> n + 2, ok |-> FALSE]
    ELSE [db |-> ClearDeleteStacks(ClearOnlyDetach(d, project_id), project_id),
          n |-> n + 2, ok |-> TRUE]

\* repository::update_logical_photo_stack
update_logical_photo_stack(lps, lp_id, stack_id) ==
    {IF l.id = lp_id THEN [l EXCEPT !.stack_id = Some(stack_id)] ELSE l : l \in lps}

RowIsTimed(row) == is_some(row[2]) /\ is_some(parse_from_rfc3339(unwrap(row[2])))
RowIsUntimed(row) == ~RowIsTimed(row)
RowTime(row) == unwrap(parse_from_rfc3339(unwrap(row[2])))

RECURSIVE InsertRowByTime(_, _)
InsertRowByTime(sorted, e) ==
    IF sorted = <<>> THEN <<e>>
    ELSE IF Head(sorted)[2] <= e[2]
         THEN <<Head(sorted)>> \o InsertRowByTime(Tail(sorted), e)
         ELSE <<e>> \o sorted

RECURSIVE SortRowsByTime(_)
\* timed.sort_by_key(|(_, t)| *t), stable
SortRowsByTime(rows) ==
    IF rows = <<>> THEN <<>>
    ELSE InsertRowByTime(SortRowsByTime(SubSeq(rows, 1, Len(rows) - 1)), rows[Len(rows)])

RECURSIVE RestackWalkFromOrigin(_, _, _, _, _)
\* a walk that measures the gap from the first photo of the current stack
RestackWalkFromOrigin(timed, i, stack_index, last_time, burst_gap_secs) ==
    IF i > Len(timed) THEN <<>>
    ELSE LET t == timed[i][2]
             bump == is_some(last_time) /\ t - unwrap(last_time) > burst_gap_secs
             idx == IF bump THEN stack_index + 1 ELSE stack_index
             org == IF bump \/ ~is_some(last_time) THEN Some(t) ELSE last_time
         IN << <<timed[i][1], idx>> >>
              \o RestackWalkFromOrigin(timed, i + 1, idx, org, burst_gap_secs)

RECURSIVE RestackWalk(_, _, _, _, _)
\* pipeline.rs:613-622: timed holds (lp id, time)
RestackWalk(timed, i, stack_index, last_time, burst_gap_secs) ==
    IF i > Len(timed) THEN <<>>
    ELSE LET t == timed[i][2]
             d == IF is_some(last_time) THEN t - unwrap(last_time) ELSE 0
             gap == IF d >= 0 THEN d ELSE 0 - d
             idx == IF is_some(last_time) /\ gap > burst_gap_secs
                    THEN stack_index + 1 ELSE stack_index
         IN << <<timed[i][1], idx>> >>
              \o RestackWalk(timed, i + 1, idx, Some(t), burst_gap_secs)

\* pipeline.rs:590-628: (lp id, stack index) for every row
RestackAssignments(lp_rows, burst_gap_secs) ==
    LET timed_rows == SelectSeq(lp_rows, RowIsTimed)
        timed == SortRowsByTime([i \in 1..Len(timed_rows) |->
                                    <<timed_rows[i][1], RowTime(timed_rows[i])>>])
        untimed == SelectSeq(lp_rows, RowIsUntimed)
        walked == RestackWalk(timed, 1, 0, None, burst_gap_secs)
        stack_index == IF walked = <<>> THEN 0 ELSE walked[Len(walked)][2]
    IN walked \o [k \in 1..Len(untimed) |-> <<untimed[k][1], stack_index + k>>]

\* pipeline.rs:642-652 with every row taken from the rowid sequence
RestackStackIdUnseeded(stacks, first_stack_inserted, max_stack_id_before) ==
    NextRowId(stacks)

\* pipeline.rs:642-652: the id the next Stack row gets
RestackStackId(stacks, first_stack_inserted, max_stack_id_before) ==
    IF ~first_stack_inserted /\ max_stack_id_before > 0
    THEN max_stack_id_before + 1
    ELSE NextRowId(stacks)

RECURSIVE RestackCreateStacks(_, _, _, _, _, _, _)
\* pipeline.rs:639-664
RestackCreateStacks(st, idx, max_stack_idx, max_stack_id_before, project_id, F, map) ==
    IF idx >= max_stack_idx THEN [st |-> st, map |-> map]
    ELSE LET s1 == [st EXCEPT !.n = @ + 1]
             id == RestackStackId(st.db.stacks, idx > 0, max_stack_id_before)
         IN IF s1.n \in F
            THEN RestackCreateStacks([s1 EXCEPT !.stats = log_error(@, "restack: insert stack")],
                                     idx + 1, max_stack_idx, max_stack_id_before,
                                     project_id, F, map)
            ELSE RestackCreateStacks(
                    [s1 EXCEPT !.db.stacks = @ \cup {[id |-> id, project_id |-> project_id]}],
                    idx + 1, max_stack_idx, max_stack_id_before, project_id, F,
                    [map EXCEPT ![idx + 1] = Some(id)])

RECURSIVE RestackUpdate(_, _, _, _, _)
\* pipeline.rs:666-683
RestackUpdate(st, assignments, i, stack_id_map, F) ==
    IF i > Len(assignments) THEN st
    ELSE LET lp_id == assignments[i][1]
             stack_idx == assignments[i][2]
             stack_db_id == IF stack_idx + 1 <= Len(stack_id_map)
                            THEN stack_id_map[stack_idx + 1] ELSE None
             s1 == [st EXCEPT !.n = @ + 1]
             next ==
                IF ~is_some(stack_db_id)
                THEN [st EXCEPT !.stats = log_error(@, "restack: no stack DB id")]
                ELSE IF s1.n \in F
                THEN [s1 EXCEPT !.stats = log_error(@, "restack: update lp")]
                ELSE [s1 EXCEPT !.db.logical_photos =
                         update_logical_photo_stack(@, lp_id, unwrap(stack_db_id))]
         IN RestackUpdate(next, assignments, i + 1, stack_id_map, F)

\* pipeline.rs:566-692 after the Stack rows were cleared with result `cleared`
RestackBody(d, project_id, burst_gap_secs, F, cleared) ==
    LET max_stack_id_before == IF d.stacks = {} THEN 0 ELSE SetMax(Ids(d.stacks))
        lp_rows == load_logical_photos_for_restack(d, project_id)
        stats1 == [StatsDefault EXCEPT !.logical_photos = Len(lp_rows)]
        assignments == RestackAssignments(lp_rows, burst_gap_secs)
        max_stack_idx == MaxStackIdx(assignments)
        stats2 == [stats1 EXCEPT !.stacks_generated = max_stack_idx]
        st0 == [db |-> cleared.db, stats |-> stats2, n |-> cleared.n, targets |-> <<>>]
        made == RestackCreateStacks(st0, 0, max_stack_idx, max_stack_id_before,
                                    project_id, F, EmptyStackIdMap(max_stack_idx))
        fin == RestackUpdate(made.st, assignments, 1, made.map, F)
    IN IF lp_rows = <<>> THEN [db |-> d, stats |-> StatsDefault, ok |-> TRUE]
       ELSE IF ~cleared.ok THEN [db |-> cleared.db, stats |-> stats1, ok |-> FALSE]
       ELSE [db |-> fin.db, stats |-> fin.stats, ok |-> TRUE]

\* a restack that clears the way a full import does
restack_clearing_logical_photos(d, project_id, burst_gap_secs, F) ==
    RestackBody(d, project_id, burst_gap_secs, F,
                clear_stacks_and_logical_photos(d, project_id, 0, F))

\* Returns the store, the statistics and Ok / Err
restack_from_existing_photos(d, project_id, burst_gap_secs, F) ==
    RestackBody(d, project_id, burst_gap_secs, F, clear_stacks_only(d, project_id, 0, F))

----------------------------------------------------------------------------
(* Values of the variables a specification does not use                    *)

NoConfig == [folder_paths |-> <<>>, burst_gap_secs |-> 0]

\* IndexingStatus::default()
StatusDefault ==
    [running |-> FALSE, thumbnails_running |-> FALSE, total |-> 0, processed |-> 0,
     errors |-> 0, cancelled |-> FALSE, paused |-> FALSE, last_stats |-> None,
     thumbnails_total |-> 0, thumbnails_done |-> 0]

EmptyDb == [photos |-> {}, logical_photos |-> {}, stacks |-> {}]

NoOp == [kind |-> "none"]

\* no overtaken worker thread
NoWorker == [pc |-> "none"]

ControlsAtRest ==
    /\ cancel = FALSE
    /\ pause = FALSE
    /\ status = StatusDefault
    /\ done_counter = 0

NothingStored ==
    /\ fs = <<>>
    /\ db = EmptyDb
    /\ cache = {}
    /\ pre = EmptyDb
    /\ last = NoOp
    /\ op = NoOp
    /\ runs = 0
    /\ restacks = 0
    /\ writes = 0
    /\ faults = 0
    /\ resumes = 0

\* state.rs:10-14: the three mutexes of AppState
Locks == {"db", "active_project", "indexing_status"}

\* the threads that run commands, and the worker thread of a run
Threads == {"ipc1", "ipc2", "worker"}

\* state.rs:22-31: no mutex is held, no command is running
NoneHeld == [l \in Locks |-> "nobody"]
NoCalls == [t \in Threads |-> [cmd |-> "none", at |-> 0, done |-> 0]]

NoRunLocals ==
    /\ stats = StatsDefault
    /\ scanned_paths = <<>>
    /\ existing_paths = {}
    /\ new_files = <<>>
    /\ cursor = 0
    /\ targets = <<>>
    /\ in_flight = {}
    /\ held = NoneHeld
    /\ calls = NoCalls
    /\ bg = NoWorker

----------------------------------------------------------------------------
(* Specification of detect_pairs as a function: every input list            *)

PairPaths ==
    { MkPath("d1", "a", "jpg"), MkPath("d1", "A", "CR2"), MkPath("d1", "a", "cr3"),
      MkPath("d1", "a", "jpeg"), MkPath("d2", "a", "cr2"), MkPath("d1", "b", "JPG") }

PairFiles == { MkScannedFile(p, unwrap(detect_format(p)), ExifEmpty) : p \in PairPaths }

SeqsUpTo(S, n) == UNION { [1..k -> S] : k \in 0..n }

InitPairs ==
    /\ all_files \in SeqsUpTo(PairFiles, MaxPairFiles)
    /\ groups = <<>>
    /\ assigned = <<>>
    /\ cfg = NoConfig
    /\ pc = "pairs_input"
    /\ ControlsAtRest /\ NothingStored /\ NoRunLocals

DetectPairs ==
    /\ pc = "pairs_input"
    /\ \E order \in KeyOrders(all_files) : groups' = detect_pairs(all_files, order)
    /\ pc' = "pairs_done"
    /\ UNCHANGED <<fs, db, cache, cancel, pause, status, done_counter, cfg, stats,
                   scanned_paths, existing_paths, new_files, cursor, all_files,
                   assigned, targets, in_flight, held, calls, bg, pre, last,
                   op, runs,
                   restacks,
                   writes, faults, resumes>>

NextPairs == DetectPairs

SpecPairs == InitPairs /\ [][NextPairs]_vars

MembersOf(g) ==
    (IF is_some(g.jpeg) THEN <<unwrap(g.jpeg)>> ELSE <<>>)
      \o (IF is_some(g.raw) THEN <<unwrap(g.raw)>> ELSE <<>>)

AllMembers(gs) == Concat([i \in 1..Len(gs) |-> MembersOf(gs[i])])

Occurrences(s, x) == Cardinality({i \in 1..Len(s) : s[i] = x})

GroupsAtKey(gs, key) == {i \in 1..Len(gs) : KeyOf(representative(gs[i])) = key}

IsRasterRawPair(members) ==
    /\ Len(members) = 2
    /\ Len(SelectSeq(members, IsJpeg)) = 1
    /\ Len(SelectSeq(members, IsRaw)) = 1

\* C3: detect_pairs yields a paired group (is_pair, both members present) for a
\* (directory, lowercased base-name) key exactly when two input files have that
\* key and they are one raster-preview and one raw-sensor file; in every other
\* case (same format twice, three or more files, same base-name in another
\* directory) the key's files come out as singleton groups, one per file.
C3_PairIffOneRasterOneRaw ==
    pc = "pairs_done" =>
        \A key \in KeysOf(all_files) :
            LET members == Bucket(all_files, key)
                at == GroupsAtKey(groups, key)
                paired == {i \in at : groups[i].is_pair}
            IN /\ (paired # {}) <=> IsRasterRawPair(members)
               /\ IsRasterRawPair(members) =>
                     /\ Cardinality(at) = 1
                     /\ \A i \in at :
                           /\ is_some(groups[i].jpeg) /\ is_some(groups[i].raw)
                           /\ unwrap(groups[i].jpeg).format = "jpeg"
                           /\ unwrap(groups[i].raw).format = "raw"
                           /\ {unwrap(groups[i].jpeg), unwrap(groups[i].raw)} = Range(members)
               /\ ~IsRasterRawPair(members) =>
                     /\ Cardinality(at) = Len(members)
                     /\ \A i \in at : Len(MembersOf(groups[i])) = 1

C3_Witness ==
    /\ pc = "pairs_done"
    /\ Len(all_files) = 3
    /\ Cardinality(KeysOf(all_files)) = 2
    /\ \E i \in 1..Len(groups) : groups[i].is_pair

\* C4: the groups returned by detect_pairs partition the input list: every
\* input file is a member of exactly one group (as often as it occurs in the
\* input), no group is empty, every group has one or two members, and is_pair
\* holds exactly when both the raster and the raw member are present.
C4_GroupsPartitionInput ==
    pc = "pairs_done" =>
        /\ \A f \in Range(all_files) \cup Range(AllMembers(groups)) :
              Occurrences(AllMembers(groups), f) = Occurrences(all_files, f)
        /\ \A i \in 1..Len(groups) :
              /\ Len(MembersOf(groups[i])) \in {1, 2}
              /\ groups[i].is_pair <=> (is_some(groups[i].jpeg) /\ is_some(groups[i].raw))

C4_Witness ==
    /\ pc = "pairs_done"
    /\ Len(all_files) = 3
    /\ Cardinality(KeysOf(all_files)) = 1
    /\ Cardinality(Range(all_files)) = 3
    /\ Len(groups) = 3

----------------------------------------------------------------------------
(* Specification of assign_stacks_by_burst as a function                   *)

StackFile(fmt, t) ==
    MkScannedFile(MkPath("tmp", "photo", IF fmt = "jpeg" THEN "jpg" ELSE "cr2"), fmt,
                  [ExifEmpty EXCEPT !.capture_time = t])

StackGroups ==
    { single_group(StackFile("jpeg", Some(t))) : t \in 0..MaxStackTime }
      \cup { single_group(StackFile("jpeg", None)),
             single_group(StackFile("raw", Some(1))),
             [jpeg |-> Some(StackFile("jpeg", None)),
              raw |-> Some(StackFile("raw", Some(0))), is_pair |-> TRUE] }

InitStacks ==
    /\ groups \in SeqsUpTo(StackGroups, MaxStackGroups)
    /\ \E g \in 0..MaxStackGap : cfg = [folder_paths |-> <<>>, burst_gap_secs |-> g]
    /\ all_files = <<>>
    /\ assigned = <<>>
    /\ pc = "stacks_input"
    /\ ControlsAtRest /\ NothingStored /\ NoRunLocals

AssignStacks ==
    /\ pc = "stacks_input"
    /\ assigned' = assign_stacks_by_burst(groups, cfg.burst_gap_secs)
    /\ pc' = "stacks_done"
    /\ UNCHANGED <<fs, db, cache, cancel, pause, status, done_counter, cfg, stats,
                   scanned_paths, existing_paths, new_files, cursor, all_files,
                   groups, targets, in_flight, held, calls, bg, pre, last,
                   op, runs,
                   restacks,
                   writes, faults, resumes>>

NextStacks == AssignStacks

SpecStacks == InitStacks /\ [][NextStacks]_vars

TimedPositions(a) == {i \in 1..Len(a) : HasTime(a[i][1])}
UntimedPositions(a) == {i \in 1..Len(a) : HasNoTime(a[i][1])}
TimeAt(a, i) == unwrap(capture_time(a[i][1]))

\* C5: the timed groups come out in ascending capture-time order, and two
\* neighbours in that order have the same stack index exactly when their time
\* difference is at most burst_gap_secs (otherwise the later one opens the next
\* index): the comparison is with the immediately preceding group only.
C5_ConsecutiveGapRule ==
    pc = "stacks_done" =>
        LET n == Cardinality(TimedPositions(assigned))
        IN /\ TimedPositions(assigned) = 1..n
           /\ n = Len(SelectSeq(groups, HasTime))
           /\ \A g \in Range(groups) : HasTime(g) =>
                 Cardinality({i \in 1..n : assigned[i][1] = g})
                   = Occurrences(groups, g)
           /\ \A i \in 1..(n - 1) :
                 /\ TimeAt(assigned, i) <= TimeAt(assigned, i + 1)
                 /\ (assigned[i + 1][2] = assigned[i][2])
                      <=> (TimeAt(assigned, i + 1) - TimeAt(assigned, i)
                             <= cfg.burst_gap_secs)
                 /\ assigned[i + 1][2] \in {assigned[i][2], assigned[i][2] + 1}

\* a chain of small gaps in one stack whose span exceeds the threshold
C5_Witness ==
    /\ pc = "stacks_done"
    /\ \E i, j \in TimedPositions(assigned) :
          /\ j >= i + 2
          /\ assigned[i][2] = assigned[j][2]
          /\ TimeAt(assigned, j) - TimeAt(assigned, i) > cfg.burst_gap_secs

\* C6: every group without a capture time gets a stack index that no other
\* group has, and that index is greater than the index of every timed group.
C6_UntimedSoloAfterTimed ==
    pc = "stacks_done" =>
        /\ Len(assigned) = Len(groups)
        /\ Cardinality(UntimedPositions(assigned)) = Len(SelectSeq(groups, HasNoTime))
        /\ \A i \in UntimedPositions(assigned) :
              /\ \A j \in 1..Len(assigned) : j # i => assigned[j][2] # assigned[i][2]
              /\ \A j \in TimedPositions(assigned) : assigned[i][2] > assigned[j][2]

C6_Witness ==
    /\ pc = "stacks_done"
    /\ Cardinality(UntimedPositions(assigned)) >= 2
    /\ Cardinality(TimedPositions(assigned)) >= 2

----------------------------------------------------------------------------
(* Files on disk and the scanner (scanner.rs)                              *)

P1 == MkPath("d1", "A", "jpg")
P2 == MkPath("d1", "a", "cr2")
P3 == MkPath("d2", "a", "jpg")
PText == MkPath("d1", "a", "txt")

PhotoPaths == {P1, P2, P3}
FsPaths == PhotoPaths \cup {PText}

Contents == {Absent, NoExif} \cup {TakenAt(t) : t \in 0..MaxTime}

\* the source folder lists a project is indexed with
FolderLists == { <<"d1">>, <<"d1", "d2">> }

\* the order in which a directory hands out its entries
DirOrder == <<PText, P2, P1, P3>>

\* the directory that holds d1 and d2
TopDir == "top"

\* scanner.rs:20: WalkDir descends into the directories below the folder
IsUnder(dir, folder) == dir = folder \/ folder = TopDir

\* source folders of which one lies inside the other: add_source_folder
\* (commands/import.rs:47-79) refuses only a path that is attached already
NestedFolderLists == { <<"top", "d1">> }

\* scanner.rs:16-56: the regular files below the folder that have a supported
\* extension, in the order the walk meets them
scan_directory(folder, disk) ==
    LET supported(p) == /\ IsUnder(p.dir, folder)
                        /\ disk[p] # Absent
                        /\ is_some(detect_format(p))
        found == SelectSeq(DirOrder, supported)
    IN [i \in 1..Len(found) |->
           [path |-> found[i], format |-> unwrap(detect_format(found[i]))]]

\* thumbnails.rs:34-48: Some(path) when the source can be read and decoded
generate_thumbnail_inner(disk, path) ==
    IF disk[path] = Malformed THEN Panicked ELSE Returned(disk[path] # Absent)

\* thumbnails.rs:6-32: a panic of the decoder is caught and gives None
generate_thumbnail(disk, path) == catch_unwind(generate_thumbnail_inner(disk, path), FALSE)

\* thumbnails.rs:33-80: the file <lp_id>.jpg replaces what the cache directory
\* held under that name; now stands for its modification time
write_thumbnail(dir, t, now) ==
    {c \in dir : c.lp_id # t.lp_id}
        \cup {[lp_id |-> t.lp_id, source |-> t.path, mtime |-> now]}

\* util.rs:16-27
cached_thumbnail_ids(dir) == {c.lp_id : c \in dir}

\* a counter that counts every target the pool has taken
fetch_add_always(counter, generated) == counter + 1

\* pipeline.rs:329-342: fetch_add(1) inside the if, so only for a thumbnail
\* that was generated
fetch_add_if(counter, generated) == IF generated THEN counter + 1 ELSE counter

\* the list without its i-th element
Without(s, i) == SubSeq(s, 1, i - 1) \o SubSeq(s, i + 1, Len(s))

----------------------------------------------------------------------------
(* start_indexing (commands/import.rs) and run_pipeline (pipeline.rs)      *)

InitOver(contents) ==
    /\ fs \in [FsPaths -> contents]
    /\ fs[PText] = NoExif
    /\ db = EmptyDb
    /\ cache = {}
    /\ ControlsAtRest
    /\ pc = "idle"
    /\ cfg = NoConfig
    /\ NoRunLocals
    /\ all_files = <<>>
    /\ groups = <<>>
    /\ assigned = <<>>
    /\ pre = EmptyDb
    /\ last = NoOp
    /\ op = NoOp
    /\ runs = 0
    /\ restacks = 0
    /\ writes = 0
    /\ faults = 0
    /\ resumes = 0

Init == InitOver(Contents)

LocalsDropped ==
    /\ scanned_paths' = <<>>
    /\ existing_paths' = {}
    /\ new_files' = <<>>
    /\ cursor' = 0
    /\ groups' = <<>>
    /\ assigned' = <<>>
    /\ targets' = <<>>

\* what the next operation remembers of the one before it
Summary ==
    IF op.kind = "run" /\ op.result = "completed" /\ ~op.faulted
    THEN [kind |-> "run", cfg |-> cfg, fs |-> op.fs,
          logical_photos |-> stats.logical_photos,
          stacks_generated |-> stats.stacks_generated]
    ELSE NoOp

\* commands/import.rs:164-240: folders and gap are read, the cache directory
\* is removed, flags, counter and status are reset and the worker is spawned
StartRunWith(lists) ==
    /\ \E folders \in lists, gap \in 0..MaxGap :
          cfg' = [folder_paths |-> folders, burst_gap_secs |-> gap]
    /\ cache' = {}
    /\ cancel' = FALSE
    /\ pause' = FALSE
    /\ done_counter' = 0
    /\ status' = [StatusDefault EXCEPT !.running = TRUE]
    /\ stats' = StatsDefault
    /\ scanned_paths' = <<>>
    /\ cursor' = 1
    /\ pc' = "scan"
    /\ pre' = db
    /\ last' = Summary
    /\ op' = [kind |-> "run", result |-> "running", faulted |-> FALSE,
              failed |-> {}, issued |-> 0, seen_at |-> "none", fs |-> fs,
              paused_at |-> {}]
    /\ runs' = runs + 1

StartRun == StartRunWith(FolderLists)

\* commands/import.rs:147-303 up to the spawn, called when no worker thread is
\* alive
start_indexing ==
    /\ pc = "idle"
    /\ ~status.running
    /\ runs < MaxRuns
    /\ StartRun
/\ UNCHANGED <<fs, db, existing_paths, new_files, all_files, groups, assigned, targets,
               in_flight, held, calls, bg, restacks, writes, faults, resumes>>

\* a checkpoint before the thumbnail stage that leaves thumbnails_running set
ThumbnailGateKeepingFlag ==
    /\ pc = "thumbs_gate"
    /\ IF cancel
       THEN /\ status' = [status EXCEPT !.cancelled = TRUE]
            /\ stats' = [stats EXCEPT !.cancelled = TRUE]
            /\ pc' = "returned"
            /\ op' = [op EXCEPT !.result = "cancelled", !.seen_at = "thumbs"]
            /\ LocalsDropped
        /\ UNCHANGED <<fs, db, cache, cancel, pause, done_counter, cfg, all_files,
                       in_flight, held, calls, bg, pre, last, runs, restacks, writes,
                       faults, resumes>>
       ELSE /\ pc' = "thumbs"
        /\ UNCHANGED <<fs, db, cache, cancel, pause, status, done_counter, cfg, stats,
                       scanned_paths, existing_paths, new_files, cursor, all_files, groups,
                       assigned, targets, in_flight, held, calls, bg, pre, last, op, runs,
                       restacks, writes, faults, resumes>>

\* a checkpoint that returns without telling the status
CancelledReturnSilent(seen) ==
    /\ stats' = [stats EXCEPT !.cancelled = TRUE]
    /\ pc' = "returned"
    /\ op' = [op EXCEPT !.result = "cancelled", !.seen_at = seen]
    /\ LocalsDropped
/\ UNCHANGED <<fs, db, cache, cancel, pause, status, done_counter, cfg, all_files,
               in_flight, held, calls, bg, pre, last, runs, restacks, writes, faults,
               resumes>>

\* pipeline.rs:91-96 and its copies at 129, 138, 149, 196, 217, 243: the
\* checkpoint saw the flag
CancelledReturn(seen) ==
    /\ status' = [status EXCEPT !.cancelled = TRUE]
    /\ stats' = [stats EXCEPT !.cancelled = TRUE]
    /\ pc' = "returned"
    /\ op' = [op EXCEPT !.result = "cancelled", !.seen_at = seen]
    /\ LocalsDropped
/\ UNCHANGED <<fs, db, cache, cancel, pause, done_counter, cfg, all_files, in_flight, held,
               calls, bg, pre, last, runs, restacks, writes, faults, resumes>>

\* pipeline.rs:90-104, one folder
ScanFolder ==
    /\ pc = "scan"
    /\ IF cancel THEN CancelledReturn("scan")
       ELSE /\ LET paths == scan_directory(cfg.folder_paths[cursor], fs)
               IN /\ scanned_paths' = scanned_paths \o paths
                  /\ stats' = [stats EXCEPT !.total_files_scanned = @ + Len(paths)]
            /\ cursor' = cursor + 1
            /\ pc' = IF cursor = Len(cfg.folder_paths) THEN "existing" ELSE "scan"
        /\ UNCHANGED <<fs, db, cache, cancel, pause, status, done_counter, cfg,
                       existing_paths, new_files, all_files, groups, assigned, targets,
                       in_flight, held, calls, bg, pre, last, op, runs, restacks, writes,
                       faults, resumes>>

\* pipeline.rs:111-126
LoadExistingPaths ==
    /\ pc = "existing"
    /\ existing_paths' = list_photo_paths_for_project(db, ProjectId)
    /\ status' = [status EXCEPT !.total = Len(scanned_paths), !.processed = 0]
    /\ new_files' = <<>>
    /\ cursor' = 1
    /\ pc' = "extract"
/\ UNCHANGED <<fs, db, cache, cancel, pause, done_counter, cfg, stats, scanned_paths,
               all_files, groups, assigned, targets, in_flight, held, calls, bg, pre, last,
               op, runs, restacks, writes, faults, resumes>>

\* an extraction loop that leaves out the file whose extraction failed
ProcessFileDroppingFailed ==
    LET sp == scanned_paths[cursor]
    IN /\ IF sp.path \in existing_paths
          THEN /\ stats' = [stats EXCEPT !.skipped_existing = @ + 1]
               /\ UNCHANGED new_files
          ELSE /\ new_files' = IF extract_exif_inner(fs[sp.path]).panicked
                                THEN new_files
                                ELSE Append(new_files,
                      MkScannedFile(sp.path, sp.format, extract_exif(fs[sp.path])))
               /\ UNCHANGED stats
       /\ status' = [status EXCEPT !.processed = @ + 1]
       /\ cursor' = cursor + 1
       /\ pc' = "extract"
   /\ UNCHANGED <<fs, db, cache, cancel, pause, done_counter, cfg, scanned_paths,
                  existing_paths, all_files, groups, assigned, targets, in_flight, held,
                  calls, bg, pre, last, op, runs, restacks, writes, faults, resumes>>

\* pipeline.rs:155-188: the file at the cursor is skipped or extracted
ProcessFile ==
    LET sp == scanned_paths[cursor]
    IN /\ IF sp.path \in existing_paths
          THEN /\ stats' = [stats EXCEPT !.skipped_existing = @ + 1]
               /\ UNCHANGED new_files
          ELSE /\ new_files' = Append(new_files,
                      MkScannedFile(sp.path, sp.format, extract_exif(fs[sp.path])))
               /\ UNCHANGED stats
       /\ status' = [status EXCEPT !.processed = @ + 1]
       /\ cursor' = cursor + 1
       /\ pc' = "extract"
   /\ UNCHANGED <<fs, db, cache, cancel, pause, done_counter, cfg, scanned_paths,
                  existing_paths, all_files, groups, assigned, targets, in_flight, held,
                  calls, bg, pre, last, op, runs, restacks, writes, faults, resumes>>

\* an extraction loop without the pause loop
ExtractFileThroughPause ==
    /\ pc = "extract"
    /\ IF cancel THEN CancelledReturn("extract")
       ELSE IF cursor > Len(scanned_paths)
       THEN /\ pc' = "pair"
        /\ UNCHANGED <<fs, db, cache, cancel, pause, status, done_counter, cfg, stats,
                       scanned_paths, existing_paths, new_files, cursor, all_files, groups,
                       assigned, targets, in_flight, held, calls, bg, pre, last, op, runs,
                       restacks, writes, faults, resumes>>
       ELSE ProcessFile

\* pipeline.rs:129-153: the checkpoint before the loop and the one at the
\* head of every iteration, then the pause check, then the file.
\* op.paused_at: the files before which the worker entered the pause loop
ExtractFile ==
    /\ pc = "extract"
    /\ IF cancel THEN CancelledReturn("extract")
       ELSE IF cursor > Len(scanned_paths)
       THEN /\ pc' = "pair"
        /\ UNCHANGED <<fs, db, cache, cancel, pause, status, done_counter, cfg, stats,
                       scanned_paths, existing_paths, new_files, cursor, all_files, groups,
                       assigned, targets, in_flight, held, calls, bg, pre, last, op, runs,
                       restacks, writes, faults, resumes>>
       ELSE IF pause
       THEN /\ pc' = "paused"
            /\ op' = [op EXCEPT !.paused_at = @ \cup {cursor}]
        /\ UNCHANGED <<fs, db, cache, cancel, pause, status, done_counter, cfg, stats,
                       scanned_paths, existing_paths, new_files, cursor, all_files, groups,
                       assigned, targets, in_flight, held, calls, bg, pre, last, runs,
                       restacks, writes, faults, resumes>>
       ELSE ProcessFile

\* a pause loop that looks at the pause flag alone
PauseLoopExitsOnResume == ~pause

\* pipeline.rs:143-148: the loop ends when pause is clear or, after a sleep,
\* when cancel is set
PauseLoopExits == ~pause \/ cancel

\* pipeline.rs:143-153: the worker wakes up in the pause loop and leaves it
LeavePause ==
    /\ pc = "paused"
    /\ PauseLoopExits
    /\ IF cancel THEN CancelledReturn("paused") ELSE ProcessFile

\* pipeline.rs:196-215
DetectPairsStage ==
    /\ pc = "pair"
    /\ IF cancel THEN CancelledReturn("pair")
       ELSE LET files == load_existing_scanned_files(db) \o new_files
            IN /\ \E order \in KeyOrders(files) : groups' = detect_pairs(files, order)
               /\ stats' = [stats EXCEPT !.pairs_detected =
                               Cardinality({i \in 1..Len(groups') : groups'[i].is_pair})]
               /\ scanned_paths' = <<>>
               /\ new_files' = <<>>
               /\ cursor' = 0
               /\ pc' = "cluster"
       /\ UNCHANGED <<fs, db, cache, cancel, pause, status, done_counter, cfg,
                      existing_paths, all_files, assigned, targets, in_flight, held, calls,
                      bg, pre, last, op, runs, restacks, writes, faults, resumes>>

\* pipeline.rs:217-240
AssignStacksStage ==
    /\ pc = "cluster"
    /\ IF cancel THEN CancelledReturn("cluster")
       ELSE /\ assigned' = assign_stacks_by_burst(groups, cfg.burst_gap_secs)
            /\ stats' = [stats EXCEPT !.stacks_generated = MaxStackIdx(assigned'),
                                      !.logical_photos = Len(assigned')]
            /\ groups' = <<>>
            /\ pc' = "persist"
        /\ UNCHANGED <<fs, db, cache, cancel, pause, status, done_counter, cfg,
                       scanned_paths, existing_paths, new_files, cursor, all_files,
                       targets, in_flight, held, calls, bg, pre, last, op, runs, restacks,
                       writes, faults, resumes>>

\* most statements one run of the persistence stage can issue
StatementBound(asg) == 3 + MaxStackIdx(asg) + 5 * Len(asg)

\* a run that carries on after a failed clear
PersistResultDespiteClear(F) ==
    LET cleared == clear_stacks_and_logical_photos(db, ProjectId, 0, F)
        max_stack_idx == stats.stacks_generated
        st0 == [db |-> cleared.db,
                stats |-> IF cleared.ok THEN stats
                          ELSE log_error(stats, "failed to clear stacks"),
                n |-> cleared.n, targets |-> <<>>]
        made == PreCreateStacks(st0, 0, max_stack_idx, ProjectId, F,
                                EmptyStackIdMap(max_stack_idx))
        fin == persist_groups_to_db(made.st, assigned, made.map, ProjectId,
                                    Some(existing_paths), F)
    IN [fatal |-> FALSE, db |-> fin.db, stats |-> fin.stats, targets |-> fin.targets,
        n |-> fin.n]

\* pipeline.rs:249-284 with the statements in F failing
PersistResult(F) ==
    LET cleared == clear_stacks_and_logical_photos(db, ProjectId, 0, F)
        max_stack_idx == stats.stacks_generated
        st0 == [db |-> cleared.db, stats |-> stats, n |-> cleared.n, targets |-> <<>>]
        made == PreCreateStacks(st0, 0, max_stack_idx, ProjectId, F,
                                EmptyStackIdMap(max_stack_idx))
        fin == persist_groups_to_db(made.st, assigned, made.map, ProjectId,
                                    Some(existing_paths), F)
    IN IF ~cleared.ok
       THEN [fatal |-> TRUE, db |-> cleared.db,
             stats |-> log_error(stats, "failed to clear stacks"), targets |-> <<>>,
             n |-> cleared.n]
       ELSE [fatal |-> FALSE, db |-> fin.db, stats |-> fin.stats, targets |-> fin.targets,
             n |-> fin.n]

\* a status update that leaves thumbnails_total to the pool
PersistedStatusWithoutTotal(s, st, n_targets) ==
    [s EXCEPT !.running = FALSE, !.thumbnails_running = TRUE, !.errors = st.errors,
              !.last_stats = Some(st), !.thumbnails_done = 0]

\* pipeline.rs:294-301: one update under the status lock
PersistedStatus(s, st, n_targets) ==
    [s EXCEPT !.running = FALSE, !.thumbnails_running = TRUE, !.errors = st.errors,
              !.last_stats = Some(st), !.thumbnails_total = n_targets,
              !.thumbnails_done = 0]

\* pipeline.rs:249-304
PersistApply(r, F) ==
       /\ db' = r.db
       /\ stats' = r.stats
       /\ IF r.fatal
          THEN /\ pc' = "returned"
               /\ op' = [op EXCEPT !.result = "fatal", !.faulted = TRUE, !.failed = F,
                                   !.issued = r.n]
               /\ targets' = <<>>
               /\ cursor' = 0
               /\ UNCHANGED <<status, done_counter>>
          ELSE /\ status' = PersistedStatus(status, r.stats, Len(r.targets))
               /\ done_counter' = 0
               /\ targets' = r.targets
               /\ cursor' = 0
               /\ pc' = "thumbs_gate"
               /\ op' = [op EXCEPT !.faulted = (F # {}), !.failed = F, !.issued = r.n]
       /\ assigned' = <<>>
       /\ existing_paths' = {}
       /\ faults' = faults + Cardinality(F)
   /\ UNCHANGED <<fs, cache, cancel, pause, cfg, scanned_paths, new_files, all_files,
                  groups, in_flight, held, calls, bg, pre, last, runs, restacks, writes,
                  resumes>>

\* pipeline.rs:249-304 with the statements in F failing
PersistWith(F) == PersistApply(PersistResult(F), F)

\* pipeline.rs:242-304, every statement succeeds
Persist ==
    /\ pc = "persist"
    /\ IF cancel THEN CancelledReturn("persist") ELSE PersistWith({})

\* pipeline.rs:306-314
ThumbnailGate ==
    /\ pc = "thumbs_gate"
    /\ IF cancel
       THEN /\ status' = [status EXCEPT !.cancelled = TRUE, !.thumbnails_running = FALSE]
            /\ stats' = [stats EXCEPT !.cancelled = TRUE]
            /\ pc' = "returned"
            /\ op' = [op EXCEPT !.result = "cancelled", !.seen_at = "thumbs"]
            /\ LocalsDropped
        /\ UNCHANGED <<fs, db, cache, cancel, pause, done_counter, cfg, all_files,
                       in_flight, held, calls, bg, pre, last, runs, restacks, writes,
                       faults, resumes>>
       ELSE /\ pc' = "thumbs"
        /\ UNCHANGED <<fs, db, cache, cancel, pause, status, done_counter, cfg, stats,
                       scanned_paths, existing_paths, new_files, cursor, all_files, groups,
                       assigned, targets, in_flight, held, calls, bg, pre, last, op, runs,
                       restacks, writes, faults, resumes>>

\* pipeline.rs:329-352 and commands/import.rs:455-461: the closure a pool
\* thread runs on one target
PoolClosure(t) ==
    LET generated == ~cancel /\ generate_thumbnail(fs, t.path)
    IN /\ cache' = IF generated THEN write_thumbnail(cache, t, runs + resumes) ELSE cache
       /\ done_counter' = fetch_add_if(done_counter, generated)

\* a pool that sleeps while the pause flag is set
GenerateThumbnailUnlessPaused ==
    /\ pc = "thumbs"
    /\ ~pause
    /\ \E i \in 1..Len(targets) :
          /\ PoolClosure(targets[i])
          /\ targets' = Without(targets, i)
    /\ op' = IF cancel THEN [op EXCEPT !.seen_at = "pool"] ELSE op
/\ UNCHANGED <<fs, db, cancel, pause, status, pc, cfg, stats, scanned_paths,
               existing_paths, new_files, cursor, all_files, groups, assigned, in_flight,
               held, calls, bg, pre, last, runs, restacks, writes, faults, resumes>>

\* pipeline.rs:326-354: the pool handles one of the targets that are left, in
\* any order
GenerateThumbnail ==
    /\ pc = "thumbs"
    /\ \E i \in 1..Len(targets) :
          /\ PoolClosure(targets[i])
          /\ targets' = Without(targets, i)
    /\ op' = IF cancel THEN [op EXCEPT !.seen_at = "pool"] ELSE op
/\ UNCHANGED <<fs, db, cancel, pause, status, pc, cfg, stats, scanned_paths,
               existing_paths, new_files, cursor, all_files, groups, assigned, in_flight,
               held, calls, bg, pre, last, runs, restacks, writes, faults, resumes>>

\* pipeline.rs:356-360
FinishRun ==
    /\ pc = "thumbs"
    /\ targets = <<>>
    /\ in_flight = {}
    /\ status' = [status EXCEPT !.thumbnails_running = FALSE]
    /\ pc' = "returned"
    /\ op' = [op EXCEPT !.result = "completed"]
    /\ LocalsDropped
/\ UNCHANGED <<fs, db, cache, cancel, pause, done_counter, cfg, stats, all_files,
               in_flight, held, calls, bg, pre, last, runs, restacks, writes, faults,
               resumes>>

\* commands/import.rs:279-299: the worker thread after run_pipeline returned
MarkDone ==
    /\ pc = "returned"
    /\ status' = [status EXCEPT !.running = FALSE, !.cancelled = stats.cancelled,
                                !.last_stats = Some(stats)]
    /\ pc' = "idle"
/\ UNCHANGED <<fs, db, cache, cancel, pause, done_counter, cfg, stats, scanned_paths,
               existing_paths, new_files, cursor, all_files, groups, assigned, targets,
               in_flight, held, calls, bg, pre, last, op, runs, restacks, writes, faults,
               resumes>>

----------------------------------------------------------------------------
(* The control surface (commands/import.rs) and the environment            *)

\* commands/import.rs:334-344: the status as the command returns it
get_indexing_status == [status EXCEPT !.thumbnails_done = done_counter]

\* commands/import.rs:305-312
cancel_indexing ==
    /\ pc # "idle" \/ bg # NoWorker
    /\ ~cancel
    /\ cancel' = TRUE
    /\ pause' = FALSE
/\ UNCHANGED <<fs, db, cache, status, done_counter, pc, cfg, stats, scanned_paths,
               existing_paths, new_files, cursor, all_files, groups, assigned, targets,
               in_flight, held, calls, bg, pre, last, op, runs, restacks, writes, faults,
               resumes>>

\* commands/import.rs:314-322
pause_indexing ==
    /\ pc # "idle"
    /\ ~pause
    /\ pause' = TRUE
    /\ status' = [status EXCEPT !.paused = TRUE]
/\ UNCHANGED <<fs, db, cache, cancel, done_counter, pc, cfg, stats, scanned_paths,
               existing_paths, new_files, cursor, all_files, groups, assigned, targets,
               in_flight, held, calls, bg, pre, last, op, runs, restacks, writes, faults,
               resumes>>

\* commands/import.rs:324-332
resume_indexing ==
    /\ pc # "idle"
    /\ pause
    /\ pause' = FALSE
    /\ status' = [status EXCEPT !.paused = FALSE]
/\ UNCHANGED <<fs, db, cache, cancel, done_counter, pc, cfg, stats, scanned_paths,
               existing_paths, new_files, cursor, all_files, groups, assigned, targets,
               in_flight, held, calls, bg, pre, last, op, runs, restacks, writes, faults,
               resumes>>

\* restack_from_existing_photos with the statements in F failing
RestackWith(F) ==
    /\ pc = "idle"
    /\ db.logical_photos # {}
    /\ restacks < MaxRestacks
    /\ \E gap \in 0..MaxRestackGap :
          LET r == restack_from_existing_photos(db, ProjectId, gap, F)
          IN /\ db' = r.db
             /\ stats' = r.stats
             /\ cfg' = [folder_paths |-> <<>>, burst_gap_secs |-> gap]
             /\ op' = [kind |-> "restack", result |-> IF r.ok THEN "ok" ELSE "err",
                       faulted |-> (F # {}), seen_at |-> "none", fs |-> fs]
    /\ pre' = db
    /\ last' = Summary
    /\ restacks' = restacks + 1
    /\ faults' = faults + Cardinality(F)
/\ UNCHANGED <<fs, cache, cancel, pause, status, done_counter, pc, scanned_paths,
               existing_paths, new_files, cursor, all_files, groups, assigned, targets,
               in_flight, held, calls, bg, runs, writes, resumes>>

Restack == RestackWith({})

\* Between two runs the user adds, replaces or removes a photo file
WriteFile ==
    /\ pc = "idle"
    /\ 0 < runs /\ runs < MaxRuns
    /\ writes < MaxWrites
    /\ \E p \in PhotoPaths, c \in Contents :
          /\ fs[p] # c
          /\ fs' = [fs EXCEPT ![p] = c]
    /\ writes' = writes + 1
/\ UNCHANGED <<db, cache, cancel, pause, status, done_counter, pc, cfg, stats,
               scanned_paths, existing_paths, new_files, cursor, all_files, groups,
               assigned, targets, in_flight, held, calls, bg, pre, last, op, runs,
               restacks, faults, resumes>>

Next ==
    \/ start_indexing
    \/ ScanFolder
    \/ LoadExistingPaths
    \/ ExtractFile
    \/ DetectPairsStage
    \/ AssignStacksStage
    \/ Persist
    \/ ThumbnailGate
    \/ GenerateThumbnail
    \/ FinishRun
    \/ MarkDone
    \/ cancel_indexing
    \/ Restack
    \/ WriteFile

Spec == Init /\ [][Next]_vars

----------------------------------------------------------------------------
(* The same program over a store whose statements can fail                 *)

\* most statements one restack can issue
RestackStatementBound == 2 + 2 * Cardinality(db.logical_photos) + 1

\* pipeline.rs:249-304, one statement fails
PersistFaulty ==
    /\ pc = "persist"
    /\ ~cancel
    /\ faults < MaxFaults
    /\ \E k \in 1..StatementBound(assigned) : PersistWith({k})

\* restack_from_existing_photos, one statement fails
RestackFaulty ==
    /\ faults < MaxFaults
    /\ \E k \in 1..RestackStatementBound : RestackWith({k})

\* the project is created over a pair taken at second 0 and a third file
InitFaults == Init /\ fs[P1] = TakenAt(0) /\ fs[P2] = TakenAt(0) /\ fs[P3] \in {NoExif, TakenAt(0)}

NextFaults == Next \/ PersistFaulty \/ RestackFaulty

SpecFaults == InitFaults /\ [][NextFaults]_vars

----------------------------------------------------------------------------
(* A run that the user pauses, resumes and cancels.  The sleep of the      *)
(* pause loop returns and the worker thread is scheduled again: weak        *)
(* fairness of the step that leaves the loop.                               *)

\* one step of the worker thread spawned by start_indexing
WorkerStep ==
    \/ ScanFolder
    \/ LoadExistingPaths
    \/ ExtractFile
    \/ LeavePause
    \/ DetectPairsStage
    \/ AssignStacksStage
    \/ Persist
    \/ ThumbnailGate
    \/ GenerateThumbnail
    \/ FinishRun
    \/ MarkDone

\* a pair taken at second 0 in d1 and a file without capture time in d2
InitPause == Init /\ fs[P1] = TakenAt(0) /\ fs[P2] = TakenAt(0) /\ fs[P3] = NoExif

NextPause ==
    \/ start_indexing
    \/ WorkerStep
    \/ cancel_indexing
    \/ pause_indexing
    \/ resume_indexing

SpecPause == InitPause /\ [][NextPause]_vars /\ WF_vars(LeavePause)

----------------------------------------------------------------------------
(* Resuming thumbnail generation (commands/import.rs:346-471)              *)

\* the Logical Photos the two queries below join to a Stack of the project
LpsInStacks(d, project_id) ==
    {l \in d.logical_photos :
        /\ is_some(l.stack_id)
        /\ \E s \in d.stacks : s.id = unwrap(l.stack_id) /\ s.project_id = project_id}

\* repository.rs:290-305: stack id -> MIN(lp.id) of the stack
list_first_lp_ids_for_project(d, project_id) ==
    LET joined == LpsInStacks(d, project_id)
    IN [sid \in {unwrap(l.stack_id) : l \in joined} |->
           SetMin({l.id : l \in {x \in joined : unwrap(x.stack_id) = sid}})]

\* repository.rs:349-364: the ids are handled as a set, their order plays no part
list_all_lp_ids_for_project(d, project_id) == Ids(LpsInStacks(d, project_id))

\* repository.rs:369-419
list_representative_photos_for_lp_ids(d, project_id, lp_ids) ==
    LET lps == RowsById({l \in d.logical_photos : l.project_id = project_id /\ l.id \in lp_ids})
        reps(l) == RowsById({r \in d.photos : r.id = l.representative_photo_id})
        row(l, r) == [lp_id |-> l.id, path |-> r.path,
                      format |-> IF r.format = "jpeg" THEN "jpeg" ELSE "raw",
                      orientation |-> r.orientation]
    IN Concat([i \in 1..Len(lps) |->
                  [k \in 1..Len(reps(lps[i])) |-> row(lps[i], reps(lps[i])[k])]])

\* commands/import.rs:348-388 and pipeline.rs:526-552 after the list of ids
MissingTargets(d, project_id, dir, all_lp_ids) ==
    LET existing == cached_thumbnail_ids(dir)
        missing_ids == {id \in all_lp_ids : id \notin existing}
    IN [targets |-> IF missing_ids = {} THEN <<>>
                    ELSE list_representative_photos_for_lp_ids(d, project_id, missing_ids),
        total |-> Cardinality(all_lp_ids)]

\* a finder that hands back every Logical Photo it listed, cached or not
find_every_thumbnail_target(d, project_id, dir) ==
    MissingTargets(d, project_id, {},
        LET lp_id_map == list_first_lp_ids_for_project(d, project_id)
        IN {lp_id_map[sid] : sid \in DOMAIN lp_id_map})

\* commands/import.rs:348-388, the function resume_thumbnails calls
find_missing_thumbnail_targets(d, project_id, dir) ==
    MissingTargets(d, project_id, dir,
        LET lp_id_map == list_first_lp_ids_for_project(d, project_id)
        IN {lp_id_map[sid] : sid \in DOMAIN lp_id_map})

\* pipeline.rs:526-552, the function of the same name in the pipeline module
pipeline_find_missing_thumbnail_targets(d, project_id, dir) ==
    MissingTargets(d, project_id, dir, list_all_lp_ids_for_project(d, project_id))

\* commands/import.rs:390-471 up to the spawn
resume_thumbnails ==
    /\ pc = "idle"
    /\ ~(status.running \/ status.thumbnails_running)
    /\ resumes < MaxResumes
    /\ LET found == find_missing_thumbnail_targets(db, ProjectId, cache)
           existing_count == found.total - Len(found.targets)
       IN IF found.targets = <<>>
          THEN /\ op' = [kind |-> "resume", result |-> "noop", faulted |-> FALSE,
                         seen_at |-> "none", fs |-> fs, missing |-> {}]
               /\ UNCHANGED <<status, done_counter, targets, pc>>
          ELSE /\ status' = [status EXCEPT !.thumbnails_running = TRUE,
                                           !.thumbnails_total = found.total,
                                           !.thumbnails_done = 0]
               /\ done_counter' = existing_count
               /\ targets' = found.targets
               /\ pc' = "resume_thumbs"
               /\ op' = [kind |-> "resume", result |-> "running", faulted |-> FALSE,
                         seen_at |-> "none", fs |-> fs,
                         missing |-> {found.targets[i].lp_id : i \in 1..Len(found.targets)}]
    /\ pre' = db
    /\ last' = Summary
    /\ resumes' = resumes + 1
/\ UNCHANGED <<fs, db, cache, cancel, pause, cfg, stats, scanned_paths, existing_paths,
               new_files, cursor, all_files, groups, assigned, in_flight, held, calls, bg,
               runs, restacks, writes, faults>>

\* commands/import.rs:453-463: the pool of the resume worker handles one of
\* the targets that are left
ResumeGenerate ==
    /\ pc = "resume_thumbs"
    /\ \E i \in 1..Len(targets) :
          /\ PoolClosure(targets[i])
          /\ targets' = Without(targets, i)
/\ UNCHANGED <<fs, db, cancel, pause, status, pc, cfg, stats, scanned_paths,
               existing_paths, new_files, cursor, all_files, groups, assigned, in_flight,
               held, calls, bg, pre, last, op, runs, restacks, writes, faults, resumes>>

\* commands/import.rs:465-468: the resume worker ends
ResumeFinish ==
    /\ pc = "resume_thumbs"
    /\ targets = <<>>
    /\ in_flight = {}
    /\ status' = [status EXCEPT !.thumbnails_running = FALSE]
    /\ pc' = "idle"
    /\ op' = [op EXCEPT !.result = "done"]
/\ UNCHANGED <<fs, db, cache, cancel, pause, done_counter, cfg, stats, scanned_paths,
               existing_paths, new_files, cursor, all_files, groups, assigned, targets,
               in_flight, held, calls, bg, pre, last, runs, restacks, writes, faults,
               resumes>>

\* a thumbnail file is removed from the cache directory while no worker runs
RemoveThumbnail ==
    /\ pc = "idle"
    /\ \E c \in cache : cache' = cache \ {c}
/\ UNCHANGED <<fs, db, cancel, pause, status, done_counter, pc, cfg, stats, scanned_paths,
               existing_paths, new_files, cursor, all_files, groups, assigned, targets,
               in_flight, held, calls, bg, pre, last, op, runs, restacks, writes, faults,
               resumes>>

\* the project is created over a pair taken at second 0 and a third file
InitThumbs ==
    Init /\ fs[P1] = TakenAt(0) /\ fs[P2] = TakenAt(0) /\ fs[P3] \in {NoExif, TakenAt(0)}

NextThumbs ==
    \/ Next
    \/ resume_thumbnails
    \/ ResumeGenerate
    \/ ResumeFinish
    \/ RemoveThumbnail

SpecThumbs == InitThumbs /\ [][NextThumbs]_vars

----------------------------------------------------------------------------
(* Requests that arrive while a worker thread is alive                     *)

\* the stages in which a worker has already set status.running to false
AfterPersistence == {"thumbs_gate", "thumbs", "returned", "resume_thumbs"}

\* commands/import.rs:147-303 up to the spawn, called while the worker of an
\* earlier run or of resume_thumbnails is in its thumbnail stage: the guard at
\* 154-162 reads status.running alone.  The earlier worker goes on as bg.
start_indexing_over_worker ==
    /\ pc \in AfterPersistence
    /\ bg = NoWorker
    /\ ~status.running
    /\ runs < MaxRuns
    /\ bg' = [pc |-> pc, targets |-> targets, stats |-> stats]
    /\ targets' = <<>>
    /\ StartRun
/\ UNCHANGED <<fs, db, existing_paths, new_files, all_files, groups, assigned, in_flight,
               held, calls, restacks, writes, faults, resumes>>

\* pipeline.rs:306-314, the overtaken worker
BgThumbnailGate ==
    /\ bg.pc = "thumbs_gate"
    /\ IF cancel
       THEN /\ status' = [status EXCEPT !.cancelled = TRUE, !.thumbnails_running = FALSE]
            /\ bg' = [bg EXCEPT !.pc = "returned", !.targets = <<>>,
                                !.stats.cancelled = TRUE]
       ELSE /\ bg' = [bg EXCEPT !.pc = "thumbs"]
            /\ UNCHANGED status
/\ UNCHANGED <<fs, db, cache, cancel, pause, done_counter, pc, cfg, stats, scanned_paths,
               existing_paths, new_files, cursor, all_files, groups, assigned, targets,
               in_flight, held, calls, pre, last, op, runs, restacks, writes, faults,
               resumes>>

\* pipeline.rs:326-354 and commands/import.rs:453-463, the overtaken worker
BgGenerateThumbnail ==
    /\ bg.pc \in {"thumbs", "resume_thumbs"}
    /\ \E i \in 1..Len(bg.targets) :
          /\ PoolClosure(bg.targets[i])
          /\ bg' = [bg EXCEPT !.targets = Without(@, i)]
/\ UNCHANGED <<fs, db, cancel, pause, status, pc, cfg, stats, scanned_paths,
               existing_paths, new_files, cursor, all_files, groups, assigned, targets,
               in_flight, held, calls, pre, last, op, runs, restacks, writes, faults,
               resumes>>

\* pipeline.rs:356-360 and commands/import.rs:465-468, the overtaken worker
BgFinish ==
    /\ bg.pc \in {"thumbs", "resume_thumbs"}
    /\ bg.targets = <<>>
    /\ status' = [status EXCEPT !.thumbnails_running = FALSE]
    /\ bg' = IF bg.pc = "thumbs" THEN [bg EXCEPT !.pc = "returned"] ELSE NoWorker
/\ UNCHANGED <<fs, db, cache, cancel, pause, done_counter, pc, cfg, stats, scanned_paths,
               existing_paths, new_files, cursor, all_files, groups, assigned, targets,
               in_flight, held, calls, pre, last, op, runs, restacks, writes, faults,
               resumes>>

\* commands/import.rs:279-299, the overtaken worker
BgMarkDone ==
    /\ bg.pc = "returned"
    /\ status' = [status EXCEPT !.running = FALSE, !.cancelled = bg.stats.cancelled,
                                !.last_stats = Some(bg.stats)]
    /\ bg' = NoWorker
/\ UNCHANGED <<fs, db, cache, cancel, pause, done_counter, pc, cfg, stats, scanned_paths,
               existing_paths, new_files, cursor, all_files, groups, assigned, targets,
               in_flight, held, calls, pre, last, op, runs, restacks, writes, faults,
               resumes>>

\* a pair and a third file, all taken at second 0
InitWorkers == Init /\ fs[P1] = TakenAt(0) /\ fs[P2] = TakenAt(0) /\ fs[P3] = TakenAt(0)

NextWorkers ==
    \/ start_indexing
    \/ start_indexing_over_worker
    \/ WorkerStep
    \/ BgThumbnailGate
    \/ BgGenerateThumbnail
    \/ BgFinish
    \/ BgMarkDone
    \/ cancel_indexing
    \/ pause_indexing
    \/ resume_indexing
    \/ resume_thumbnails
    \/ ResumeGenerate
    \/ ResumeFinish

SpecWorkers == InitWorkers /\ [][NextWorkers]_vars

----------------------------------------------------------------------------
(* A project whose source folders lie one inside the other                 *)

\* commands/import.rs:147-303 up to the spawn, the folders of the project nested
start_indexing_nested ==
    /\ pc = "idle"
    /\ ~status.running
    /\ runs < MaxRuns
    /\ StartRunWith(NestedFolderLists)
/\ UNCHANGED <<fs, db, existing_paths, new_files, all_files, groups, assigned, targets,
               in_flight, held, calls, bg, restacks, writes, faults, resumes>>

\* d1 holds a RAW file, alone or beside its JPEG; d2 holds nothing or a JPEG
InitFolders ==
    Init /\ fs[P1] \in {Absent, TakenAt(0)} /\ fs[P2] = TakenAt(0)
         /\ fs[P3] \in {Absent, NoExif}

NextFolders == Next \/ start_indexing_nested

SpecFolders == InitFolders /\ [][NextFolders]_vars

----------------------------------------------------------------------------
(* log_error over a run with more failures than the log holds: the errors  *)
(* of the stack rows (pipeline.rs:261-274) come before those of the groups *)
(* (pipeline.rs:385-489).  op.messages is every message passed so far.     *)

InitErrors ==
    /\ all_files = <<>>
    /\ groups = <<>>
    /\ assigned = <<>>
    /\ cfg = NoConfig
    /\ pc = "persist"
    /\ ControlsAtRest /\ NoRunLocals
    /\ fs = <<>> /\ db = EmptyDb /\ cache = {} /\ pre = EmptyDb /\ last = NoOp
    /\ op = [kind |-> "log_error", messages |-> <<>>]
    /\ runs = 0 /\ restacks = 0 /\ writes = 0 /\ faults = 0 /\ resumes = 0

LogErrorStep(msg) ==
    /\ pc = "persist"
    /\ stats.errors < MaxErrors
    /\ stats' = log_error(stats, msg)
    /\ op' = [op EXCEPT !.messages = Append(@, msg)]
    /\ UNCHANGED <<fs, db, cache, cancel, pause, status, done_counter, pc, cfg,
                   scanned_paths, existing_paths, new_files, cursor, all_files, groups,
                   assigned, targets, in_flight, held, calls, bg, pre, last, runs,
                   restacks, writes, faults, resumes>>

\* pipeline.rs:268-272
LogStackError ==
    /\ \A i \in 1..Len(op.messages) : op.messages[i] = "insert stack"
    /\ LogErrorStep("insert stack")

\* pipeline.rs:400-403
LogGroupError ==
    /\ op.kind = "log_error"
    /\ LogErrorStep("insert photo")

NextErrors == LogStackError \/ LogGroupError

SpecErrors == InitErrors /\ [][NextErrors]_vars

----------------------------------------------------------------------------
(* generate_jpeg_thumbnail as a function (thumbnails.rs:155-197).  A JPEG   *)
(* source is what the decoders can find in it: the bytes of the embedded   *)
(* preview, if any, and whether the image itself decodes.  save_ok[k] says *)
(* whether the k-th attempt to write the output file succeeds.             *)

MinShortSide == 200

\* sides of an embedded preview, in pixels
PreviewSides == {1, 199, 200, 299, 300}

\* bytes that are not an image
CorruptBytes == [decodes |-> FALSE, width |-> 0, height |-> 0]

PreviewBytes(w, h) == [decodes |-> TRUE, width |-> w, height |-> h]

JpegSources ==
    [embedded : {None, Some(CorruptBytes)}
                  \cup {Some(PreviewBytes(w, h)) :
                            w \in PreviewSides, h \in PreviewSides},
     decodable : BOOLEAN]

\* thumbnails.rs:64-89
extract_exif_embedded_thumbnail(src) == src.embedded

\* image::load_from_memory
load_from_memory(bytes) ==
    IF bytes.decodes THEN Some([width |-> bytes.width, height |-> bytes.height]) ELSE None

\* image::open on the source file
image_open(src) == IF src.decodable THEN Some("image") ELSE None

\* thumbnails.rs:112-133: Some(out_path) when the file was written
generate_thumbnail_from_image(img, saved) == IF saved THEN Some(img) ELSE None

\* the fast path with the bound one pixel lower
generate_jpeg_thumbnail_from_199(src, save_ok) ==
    LET bytes == extract_exif_embedded_thumbnail(src)
        img == IF is_some(bytes) THEN load_from_memory(unwrap(bytes)) ELSE None
        short_side == IF unwrap(img).width < unwrap(img).height
                      THEN unwrap(img).width ELSE unwrap(img).height
        adequate == is_some(img) /\ short_side >= MinShortSide - 1
        fast == IF adequate THEN generate_thumbnail_from_image("embedded", save_ok[1])
                ELSE None
        next_save == IF adequate THEN 2 ELSE 1
        full == image_open(src)
    IN IF is_some(fast)
       THEN [file |-> fast, full_decode |-> FALSE, saves |-> 1]
       ELSE IF ~is_some(full)
       THEN [file |-> None, full_decode |-> TRUE, saves |-> next_save - 1]
       ELSE [file |-> generate_thumbnail_from_image("full", save_ok[next_save]),
             full_decode |-> TRUE, saves |-> next_save]

\* thumbnails.rs:155-197: file is the written thumbnail and what it was made
\* from, full_decode whether image::open was called, saves the writes tried
generate_jpeg_thumbnail(src, save_ok) ==
    LET bytes == extract_exif_embedded_thumbnail(src)
        img == IF is_some(bytes) THEN load_from_memory(unwrap(bytes)) ELSE None
        short_side == IF unwrap(img).width < unwrap(img).height
                      THEN unwrap(img).width ELSE unwrap(img).height
        adequate == is_some(img) /\ short_side >= MinShortSide
        fast == IF adequate THEN generate_thumbnail_from_image("embedded", save_ok[1])
                ELSE None
        next_save == IF adequate THEN 2 ELSE 1
        full == image_open(src)
    IN IF is_some(fast)
       THEN [file |-> fast, full_decode |-> FALSE, saves |-> 1]
       ELSE IF ~is_some(full)
       THEN [file |-> None, full_decode |-> TRUE, saves |-> next_save - 1]
       ELSE [file |-> generate_thumbnail_from_image("full", save_ok[next_save]),
             full_decode |-> TRUE, saves |-> next_save]

InitJpegThumb ==
    /\ \E src \in JpegSources : fs = [p \in {P1} |-> src]
    /\ all_files = <<>>
    /\ groups = <<>>
    /\ assigned = <<>>
    /\ cfg = NoConfig
    /\ pc = "thumb_input"
    /\ ControlsAtRest /\ NoRunLocals
    /\ db = EmptyDb /\ cache = {} /\ pre = EmptyDb /\ last = NoOp /\ op = NoOp
    /\ runs = 0 /\ restacks = 0 /\ writes = 0 /\ faults = 0 /\ resumes = 0

\* thumbnails.rs:6-57 for a JPEG source: the file 1.jpg is written or not
GenerateJpegThumbnail ==
    /\ pc = "thumb_input"
    /\ \E save_ok \in [1..2 -> BOOLEAN] :
          LET r == generate_jpeg_thumbnail(fs[P1], save_ok)
          IN /\ cache' = IF is_some(r.file)
                         THEN {[lp_id |-> 1, source |-> P1, mtime |-> 0,
                                made_from |-> unwrap(r.file)]}
                         ELSE {}
             /\ op' = [kind |-> "thumbnail", full_decode |-> r.full_decode,
                       saved |-> [k \in 1..r.saves |-> save_ok[k]]]
    /\ pc' = "thumb_done"
    /\ UNCHANGED <<fs, db, cancel, pause, status, done_counter, cfg, stats, scanned_paths,
                   existing_paths, new_files, cursor, all_files, groups, assigned, targets,
                   in_flight, held, calls, bg, pre, last, runs, restacks, writes, faults,
                   resumes>>

NextJpegThumb == GenerateJpegThumbnail

SpecJpegThumb == InitJpegThumb /\ [][NextJpegThumb]_vars

----------------------------------------------------------------------------
(* The worker pool of the thumbnail stage with the closure in two steps: a *)
(* pool thread reads the cancel flag for a target, and when the flag is    *)
(* clear it generates the thumbnail and counts it (pipeline.rs:326-354,    *)
(* commands/import.rs:454-463).  The flag can be set between the two.      *)

pool_thread_begins_regardless(flag) == TRUE

\* pipeline.rs:330 and commands/import.rs:456: !cancel.load(Ordering::SeqCst)
pool_thread_begins(flag) == ~flag

\* the stages in which a pool is at work
PoolStages == {"thumbs", "resume_thumbs"}

\* a pool thread takes a target and reads the flag: the target is begun, or
\* it is left without a thumbnail
PoolBegin ==
    /\ pc \in PoolStages
    /\ \E i \in 1..Len(targets) :
          /\ in_flight' = IF pool_thread_begins(cancel)
                          THEN in_flight \cup {targets[i]} ELSE in_flight
          /\ targets' = Without(targets, i)
    /\ op' = IF cancel THEN [op EXCEPT !.seen_at = "pool"] ELSE op
/\ UNCHANGED <<fs, db, cache, cancel, pause, status, done_counter, pc, cfg, stats,
               scanned_paths, existing_paths, new_files, cursor, all_files, groups,
               assigned, held, calls, bg, pre, last, runs, restacks, writes, faults,
               resumes>>

\* pipeline.rs:331-351 and commands/import.rs:457-459: the thread generates the
\* thumbnail of a target it has begun and adds it to the counter
PoolGenerate ==
    /\ pc \in PoolStages
    /\ \E t \in in_flight :
          LET generated == generate_thumbnail(fs, t.path)
          IN /\ cache' = IF generated THEN write_thumbnail(cache, t, runs + resumes)
                                      ELSE cache
             /\ done_counter' = fetch_add_if(done_counter, generated)
             /\ in_flight' = in_flight \ {t}
/\ UNCHANGED <<fs, db, cancel, pause, status, pc, cfg, stats, scanned_paths,
               existing_paths, new_files, cursor, all_files, groups, assigned, targets,
               held, calls, bg, pre, last, op, runs, restacks, writes, faults, resumes>>

\* the project is created over a pair taken at second 0 and a file without
\* capture time: two targets
InitPool == Init /\ fs[P1] = TakenAt(0) /\ fs[P2] = TakenAt(0) /\ fs[P3] = NoExif

NextPool ==
    \/ start_indexing
    \/ ScanFolder
    \/ LoadExistingPaths
    \/ ExtractFile
    \/ DetectPairsStage
    \/ AssignStacksStage
    \/ Persist
    \/ ThumbnailGate
    \/ PoolBegin
    \/ PoolGenerate
    \/ FinishRun
    \/ MarkDone
    \/ cancel_indexing
    \/ resume_thumbnails
    \/ ResumeFinish
    \/ RemoveThumbnail
    \/ WriteFile

\* a pool thread that has begun a target is scheduled until it is through
SpecPool == InitPool /\ [][NextPool]_vars /\ WF_vars(PoolGenerate)

----------------------------------------------------------------------------
(* A folder with a file that makes the metadata reader and the decoder     *)
(* panic (integration_tests.rs:444-482)                                    *)

\* one of the three files is malformed, the others are sound
InitMalformed ==
    /\ InitOver({NoExif, Malformed} \cup {TakenAt(t) : t \in 0..MaxTime})
    /\ \E bad \in PhotoPaths :
          /\ fs[bad] = Malformed
          /\ \A p \in PhotoPaths \ {bad} : fs[p] \in {NoExif, TakenAt(0), TakenAt(1)}

NextMalformed ==
    \/ start_indexing
    \/ ScanFolder
    \/ LoadExistingPaths
    \/ ExtractFile
    \/ DetectPairsStage
    \/ AssignStacksStage
    \/ Persist
    \/ ThumbnailGate
    \/ GenerateThumbnail
    \/ FinishRun
    \/ MarkDone

SpecMalformed == InitMalformed /\ [][NextMalformed]_vars

----------------------------------------------------------------------------
(* The mutexes of AppState (state.rs:8-19) as the commands and the worker  *)
(* thread take and release them.  Each command is the list of its lock and *)
(* unlock operations in program order; a guard is released where it goes   *)
(* out of scope.                                                           *)

MaxCalls == 2         \* commands one thread runs in one behaviour

Acquire(m) == [do |-> "lock", m |-> m]
Release(m) == [do |-> "unlock", m |-> m]

\* commands/import.rs:26-48: both guards are returned to the caller
with_open_project == <<Acquire("db"), Acquire("active_project")>>

\* the guards of with_open_project go out of scope
DropGuards == <<Release("active_project"), Release("db")>>

\* commands/import.rs:28-30: no project is open, the db guard is dropped
with_open_project_none == <<Acquire("db"), Release("db")>>

\* a block that locks indexing_status, reads or writes it and ends
StatusBlock == <<Acquire("indexing_status"), Release("indexing_status")>>

\* commands/projects.rs:23-33
open_project_inner ==
    <<Acquire("db"), Acquire("active_project"), Release("active_project"), Release("db")>>

\* commands/projects.rs:71-83: each guard is a temporary of its statement
create_project ==
    <<Acquire("db"), Release("db"), Acquire("active_project"), Release("active_project")>>

delete_project_project_first ==
    <<Acquire("active_project"), Acquire("db"), Release("db"), Release("active_project")>>

\* commands/projects.rs:152-166
delete_project ==
    <<Acquire("db"), Acquire("active_project"), Release("active_project"), Release("db")>>

\* the lock operations of every command, in program order
LockPrograms ==
    [open_project |-> open_project_inner,
     create_project |-> create_project,
     delete_project |-> delete_project,
     list_source_folders |-> with_open_project \o DropGuards,
     no_project_open |-> with_open_project_none,
     remove_source_folder |-> StatusBlock \o with_open_project \o DropGuards,
     start_indexing |-> StatusBlock \o with_open_project \o DropGuards \o StatusBlock,
     resume_thumbnails |-> StatusBlock \o with_open_project \o StatusBlock \o DropGuards,
     get_indexing_status |-> StatusBlock,
     update_status |-> StatusBlock]

\* what a thread can be asked to run: the worker thread only updates the status
CommandsOf(t) ==
    IF t = "worker" THEN {"update_status"} ELSE DOMAIN LockPrograms \ {"update_status"}

\* the operation the thread is at
NextOp(t) == LockPrograms[calls[t].cmd][calls[t].at]

\* the thread has done the operation it was at
Advanced(t) ==
    IF calls[t].at = Len(LockPrograms[calls[t].cmd])
    THEN [calls EXCEPT ![t] = [cmd |-> "none", at |-> 0, done |-> @.done + 1]]
    ELSE [calls EXCEPT ![t].at = @ + 1]

\* a command arrives on a thread that is free
CallCommand ==
    /\ \E t \in Threads, c \in DOMAIN LockPrograms :
          /\ calls[t].cmd = "none"
          /\ calls[t].done < MaxCalls
          /\ c \in CommandsOf(t)
          /\ calls' = [calls EXCEPT ![t] = [cmd |-> c, at |-> 1, done |-> @.done]]
/\ UNCHANGED <<fs, db, cache, cancel, pause, status, done_counter, pc, cfg, stats,
               scanned_paths, existing_paths, new_files, cursor, all_files, groups,
               assigned, targets, in_flight, held, bg, pre, last, op, runs, restacks,
               writes, faults, resumes>>

\* Mutex::lock returns when nobody holds the mutex
AcquireLock ==
    /\ \E t \in Threads :
          /\ calls[t].cmd # "none"
          /\ NextOp(t).do = "lock"
          /\ held[NextOp(t).m] = "nobody"
          /\ held' = [held EXCEPT ![NextOp(t).m] = t]
          /\ calls' = Advanced(t)
/\ UNCHANGED <<fs, db, cache, cancel, pause, status, done_counter, pc, cfg, stats,
               scanned_paths, existing_paths, new_files, cursor, all_files, groups,
               assigned, targets, in_flight, bg, pre, last, op, runs, restacks, writes,
               faults, resumes>>

\* a guard is dropped
ReleaseLock ==
    /\ \E t \in Threads :
          /\ calls[t].cmd # "none"
          /\ NextOp(t).do = "unlock"
          /\ held' = [held EXCEPT ![NextOp(t).m] = "nobody"]
          /\ calls' = Advanced(t)
/\ UNCHANGED <<fs, db, cache, cancel, pause, status, done_counter, pc, cfg, stats,
               scanned_paths, existing_paths, new_files, cursor, all_files, groups,
               assigned, targets, in_flight, bg, pre, last, op, runs, restacks, writes,
               faults, resumes>>

InitLocks == Init /\ \A p \in FsPaths : fs[p] = NoExif

NextLocks ==
    \/ CallCommand
    \/ AcquireLock
    \/ ReleaseLock

SpecLocks == InitLocks /\ [][NextLocks]_vars

----------------------------------------------------------------------------
(* Every way a run can end.  The worker thread is scheduled again and      *)
(* again until it returns: weak fairness of each of its steps.              *)

\* commands/import.rs:240-256: the worker cannot open the store and returns
\* before run_pipeline is called
OpenConnectionFails ==
    /\ pc = "scan"
    /\ cursor = 1
    /\ scanned_paths = <<>>
    /\ status' = [status EXCEPT !.running = FALSE, !.errors = 1,
                                !.last_stats = Some([StatsDefault EXCEPT
                                                        !.errors = 1,
                                                        !.error_log = <<"Cannot open DB">>])]
    /\ pc' = "idle"
    /\ cursor' = 0
    /\ op' = [op EXCEPT !.result = "open failed"]
/\ UNCHANGED <<fs, db, cache, cancel, pause, done_counter, cfg, stats, scanned_paths,
               existing_paths, new_files, all_files, groups, assigned, targets, in_flight,
               held, calls, bg, pre, last, runs, restacks, writes, faults, resumes>>

\* a pair taken at second 0 in d1 and a file without capture time in d2
InitLive == Init /\ fs[P1] = TakenAt(0) /\ fs[P2] = TakenAt(0) /\ fs[P3] = NoExif

NextLive ==
    \/ start_indexing
    \/ OpenConnectionFails
    \/ WorkerStep
    \/ PersistFaulty
    \/ cancel_indexing
    \/ pause_indexing
    \/ resume_indexing

\* the worker leaves stage s
StageEnds(s) == pc = s /\ pc' \in {"cluster", "persist", "thumbs_gate", "returned"} \ {s}

\* pairing, clustering and persistence are one step of the worker each, which
\* always leaves the stage (persistence with or without a failed statement):
\* for these the fairness of the step is the fairness of leaving the stage
SpecLive ==
    /\ InitLive
    /\ [][NextLive]_vars
    /\ WF_vars(ScanFolder)
    /\ WF_vars(LoadExistingPaths)
    /\ WF_vars(ExtractFile)
    /\ WF_vars(LeavePause)
    /\ WF_pc(StageEnds("pair"))
    /\ WF_pc(StageEnds("cluster"))
    /\ WF_pc(StageEnds("persist"))
    /\ WF_vars(ThumbnailGate)
    /\ WF_vars(GenerateThumbnail)
    /\ WF_vars(FinishRun)
    /\ WF_vars(MarkDone)

----------------------------------------------------------------------------
(* Properties of the pipeline and of restack, every statement succeeding   *)

RunEnded == op.kind = "run" /\ pc \in {"returned", "idle"}
RunCompleted == RunEnded /\ op.result = "completed"
RestackDone == op.kind = "restack" /\ op.result = "ok"

\* the supported files below the folders of the current configuration
SupportedOnDisk ==
    {p \in PhotoPaths : p.dir \in Range(cfg.folder_paths) /\ fs[p] # Absent}

\* the run before this one completed without errors, with the same folders and
\* gap, over the files that are on disk now
SameRunAgain == RunCompleted /\ last # NoOp /\ last.cfg = cfg /\ last.fs = fs

\* C1: a completed run that follows a completed, error-free run of the same
\* folders and gap over unchanged files imports nothing, skips every supported
\* file, and reports the logical-photo and stack counts of the run before it.
C1_SecondRunIdempotent ==
    SameRunAgain =>
        /\ stats.imported = 0
        /\ stats.skipped_existing = Cardinality(SupportedOnDisk)
        /\ stats.logical_photos = last.logical_photos
        /\ stats.stacks_generated = last.stacks_generated

C1_Witness ==
    /\ SameRunAgain
    /\ Cardinality(SupportedOnDisk) = 3
    /\ stats.pairs_detected = 1
    /\ stats.skipped_existing = 3

LinkFree(lps) ==
    {[id |-> l.id, project_id |-> l.project_id,
      representative_photo_id |-> l.representative_photo_id] : l \in lps}

\* C7: a restack leaves every Photo row as it was and keeps the same Logical
\* Photo ids, each with the same representative; only Stack rows and the
\* stack links of the Logical Photos differ.
C7_RestackKeepsPhotosAndLogicalPhotos ==
    RestackDone =>
        /\ db.photos = pre.photos
        /\ LinkFree(db.logical_photos) = LinkFree(pre.logical_photos)
        /\ Cardinality(db.logical_photos) = Cardinality(pre.logical_photos)

C7_Witness ==
    /\ RestackDone
    /\ Cardinality(pre.logical_photos) = 2
    /\ \E l \in db.logical_photos, m \in pre.logical_photos :
          l.id = m.id /\ l.stack_id # m.stack_id
    /\ \E r \in db.photos : is_some(r.logical_photo_id)

C9_RunStackIdsFresh ==
    (RunCompleted /\ pre.stacks # {}) =>
        Ids(db.stacks) \cap Ids(pre.stacks) = {}

BeforePersistence == {"scan", "extract", "paused", "pair", "cluster", "persist"}

\* C10: a run whose checkpoint saw the cancel flag before the persistence stage
\* returns cancelled, has status.cancelled set, has done nothing of the stages
\* after that checkpoint, and leaves the three tables as they were at its start.
C10_CancelBeforePersistLeavesStore ==
    (RunEnded /\ op.result = "cancelled" /\ op.seen_at \in BeforePersistence) =>
        /\ stats.cancelled
        /\ status.cancelled
        /\ db = pre
        /\ stats.imported = 0
        /\ cache = {}
        /\ ~status.thumbnails_running
        /\ status.thumbnails_total = 0
        /\ op.seen_at = "scan" => status.total = 0
        /\ op.seen_at \in {"scan", "extract", "paused", "pair"} => stats.pairs_detected = 0
        /\ op.seen_at # "persist" => stats.logical_photos = 0 /\ stats.stacks_generated = 0

C10_Witness ==
    /\ RunEnded
    /\ op.result = "cancelled"
    /\ op.seen_at = "persist"
    /\ pre.stacks # {}
    /\ stats.logical_photos = 2
    /\ stats.skipped_existing = 1

----------------------------------------------------------------------------
(* Properties over a store whose statements can fail                       *)

Metadata(r) ==
    [id |-> r.id, path |-> r.path, format |-> r.format, capture_time |-> r.capture_time,
     orientation |-> r.orientation, camera_model |-> r.camera_model, lens |-> r.lens]

\* what a scan of the path would hand to insert_scanned_file, for every content
Rescanned(path) ==
    {MkScannedFile(path, unwrap(detect_format(path)), extract_exif(c)) :
        c \in Contents \ {Absent}}

\* C2: whatever runs (completed, cancelled, with failed statements) and restacks
\* have happened, no two Photo rows share a path, every Photo row that was
\* there when the current operation began is still there with its id, format,
\* capture time, orientation, camera and lens, and inserting a file whose path
\* is stored returns the stored row's id and leaves the table as it is.
C2_OneRowPerPathFirstWriteWins ==
    /\ \A r1, r2 \in db.photos : r1.path = r2.path => r1 = r2
    /\ \A r \in pre.photos : \E q \in db.photos : Metadata(q) = Metadata(r)
    /\ \A r \in db.photos : \A f \in Rescanned(r.path) :
          LET got == insert_scanned_file(db.photos, f)
          IN got.id = r.id /\ got.photos = db.photos

\* a second run has persisted a file whose stored row had lost its Logical
\* Photo in a failed run and whose content on disk differs from the stored one
C2_Witness ==
    /\ RunCompleted
    /\ runs = 2
    /\ stats.imported > 0
    /\ \E r \in pre.photos :
          /\ r.logical_photo_id = None
          /\ r.path.dir \in Range(cfg.folder_paths)
          /\ fs[r.path] # Absent
          /\ extract_exif(fs[r.path]).capture_time = None
          /\ r.capture_time # None
          /\ \E q \in db.photos : q.id = r.id /\ is_some(q.logical_photo_id)

----------------------------------------------------------------------------
(* Pause and cancel                                                        *)

PausedAndCancelled == pc = "paused" /\ cancel

\* C11: once the cancel flag is set while the worker waits in the pause loop,
\* the next thing the worker does is return with cancelled = true, having
\* processed no further file, and it does so eventually, whether or not the
\* pause flag is set again in the meantime.
C11_CancelEndsPause ==
    /\ [][(PausedAndCancelled /\ pc' # "paused") =>
            /\ pc' = "returned"
            /\ stats'.cancelled
            /\ status'.cancelled
            /\ status'.processed = status.processed]_vars
    /\ PausedAndCancelled ~> (pc = "returned" /\ stats.cancelled /\ op.seen_at = "paused")

\* the worker has returned from the pause loop although pause was set again
\* after the cancel
C11_Witness ==
    /\ pc = "returned"
    /\ op.result = "cancelled"
    /\ op.seen_at = "paused"
    /\ pause
    /\ status.processed = 1
    /\ status.total = 3

----------------------------------------------------------------------------
(* The thumbnail stage and resume_thumbnails                               *)

\* the Logical Photos whose representative file can be read from disk
LpsWithSource ==
    {l \in db.logical_photos :
        \E r \in db.photos : r.id = l.representative_photo_id /\ fs[r.path] # Absent}

\* C13: when the persistence stage has ended and no pool thread has started,
\* the status already shows running = false, thumbnails_running = true, the
\* number of targets as thumbnails_total and last_stats; and whenever a status
\* read during a run shows thumbnails_running, thumbnails_total is that number.
C13_StatusSetBeforePool ==
    /\ pc = "thumbs_gate" =>
          /\ ~status.running
          /\ status.thumbnails_running
          /\ status.thumbnails_total = Len(targets)
          /\ status.last_stats = Some(stats)
          /\ done_counter = 0
          /\ cache = {}
    /\ (op.kind = "run" /\ status.thumbnails_running) =>
          /\ pc \in {"thumbs_gate", "thumbs"}
          /\ ~status.running
          /\ is_some(status.last_stats)
          /\ status.thumbnails_total = Cardinality(db.logical_photos)

C13_Witness ==
    /\ pc = "thumbs"
    /\ status.thumbnails_running
    /\ status.thumbnails_total = 2
    /\ Len(targets) = 1
    /\ cache # {}

C15_FinderReturnsEveryMissing ==
    pc = "idle" =>
        LET found == find_missing_thumbnail_targets(db, ProjectId, cache)
            missing == Ids(db.logical_photos) \ cached_thumbnail_ids(cache)
        IN /\ {found.targets[i].lp_id : i \in 1..Len(found.targets)} = missing
           /\ Len(found.targets) = Cardinality(missing)
           /\ found.total = Cardinality(db.logical_photos)

EveryLpCached == Ids(db.logical_photos) \subseteq cached_thumbnail_ids(cache)

\* C16: a call of resume_thumbnails changes no file of the cache directory and
\* returns as missing only ids that have no file; when every Logical Photo has
\* a file it starts no worker and leaves the status alone; every step of the
\* resume worker keeps each file that was there and adds only files of ids
\* that were returned as missing.
C16_ResumeTouchesOnlyMissing ==
    [][/\ resumes' # resumes =>
            /\ cache' = cache
            /\ op'.missing \cap cached_thumbnail_ids(cache) = {}
            /\ EveryLpCached =>
                  /\ op'.result = "noop"
                  /\ pc' = "idle"
                  /\ targets' = <<>>
                  /\ status' = status
                  /\ done_counter' = done_counter
       /\ pc = "resume_thumbs" =>
            /\ \A c \in cache : c \in cache'
            /\ \A c \in cache' \ cache : c.lp_id \in op.missing]_vars

\* the resume worker has ended: a file written before the call is still there
\* beside a newer one of an id that was missing
C16_Witness ==
    /\ op.kind = "resume"
    /\ op.result = "done"
    /\ \E c1, c2 \in cache :
          /\ c1.mtime < c2.mtime
          /\ c1.lp_id \notin op.missing
          /\ c2.lp_id \in op.missing

----------------------------------------------------------------------------
(* Worker threads                                                          *)

\* C12: no two worker threads are alive together: while the worker of a run or
\* of resume_thumbnails has not ended, no later request has started another.
C12_OneWorkerAtATime == ~(pc # "idle" /\ bg # NoWorker)

----------------------------------------------------------------------------
(* Shape of the store after a run                                          *)

\* the Photo rows that reference the Logical Photo
PhotosOf(l) == {r \in db.photos : r.logical_photo_id = Some(l.id)}

\* C17: after a completed run there is one Logical Photo per logical group,
\* as many Logical Photos referenced by two Photo rows (one JPEG, one RAW) as
\* pairs were detected, and every other Logical Photo is referenced by exactly
\* one Photo row.
C17_PhotoRowsPerLogicalPhoto ==
    RunCompleted =>
        /\ Cardinality(db.logical_photos) = stats.logical_photos
        /\ \A l \in db.logical_photos :
              \/ Cardinality(PhotosOf(l)) = 1
              \/ /\ Cardinality(PhotosOf(l)) = 2
                 /\ \E a, b \in PhotosOf(l) : a.format = "jpeg" /\ b.format # "jpeg"
        /\ Cardinality({l \in db.logical_photos : Cardinality(PhotosOf(l)) = 2})
              = stats.pairs_detected

\* the Stack rows some Logical Photo is linked to
OwningStackIds ==
    {unwrap(l.stack_id) : l \in {x \in db.logical_photos : is_some(x.stack_id)}}

\* C18: after a completed run or restack every Logical Photo is linked to a
\* Stack row of the project and every Stack row owns a Logical Photo, so that
\* there are as many Stack rows as stack indices in use.
C18_OneStackPerIndexNoneEmpty ==
    (RunCompleted \/ RestackDone) =>
        /\ \A l \in db.logical_photos : is_some(l.stack_id)
        /\ OwningStackIds = Ids(db.stacks)
        /\ stats.stacks_generated = Cardinality(OwningStackIds)

----------------------------------------------------------------------------
\* C19: when clearing the old stacks and logical photos fails, run_pipeline
\* returns at once: no Stack, Logical Photo or Photo row is inserted, no
\* thumbnail work starts, and the statistics returned count the error.
\* one of the three statements of the clear failed in the current run
ClearFailed == op.kind = "run" /\ op.failed \cap 1..3 # {}

C19_ClearFailureIsFatal ==
    /\ [](ClearFailed =>
            /\ pc \in {"returned", "idle"}
            /\ op.result = "fatal"
            /\ Ids(db.stacks) \subseteq Ids(pre.stacks)
            /\ Ids(db.logical_photos) \subseteq Ids(pre.logical_photos)
            /\ Ids(db.photos) = Ids(pre.photos)
            /\ targets = <<>>
            /\ ~status.thumbnails_running
            /\ stats.errors = 1
            /\ stats.error_log = <<"failed to clear stacks">>
            /\ stats.imported = 0
            /\ pc = "idle" => status.last_stats = Some(stats))
    /\ [][(pc = "persist" /\ ClearFailed') =>
            /\ pc' = "returned"
            /\ cache' = cache
            /\ done_counter' = done_counter
            /\ status' = status]_vars
    /\ [][(ClearFailed /\ ClearFailed') => (cache' = cache /\ db' = db)]_vars

\* the clear failed at its last statement, after the logical photos of the
\* earlier run were deleted
C19_Witness ==
    /\ ClearFailed
    /\ pc = "idle"
    /\ pre.logical_photos # {}
    /\ db.logical_photos = {}
    /\ db.stacks = pre.stacks
    /\ db.stacks # {}
    /\ op.failed = {3}

----------------------------------------------------------------------------
\* C20: a failure to write the rows of one logical group increments the error
\* counter and skips that group only: every other group is persisted and has
\* a thumbnail target, and the run returns its statistics summary.

\* a statement of persist_groups_to_db failed in the current run: the clear
\* takes statements 1..3, the stack rows the next stacks_generated ones
GroupWriteFailed ==
    /\ op.kind = "run"
    /\ \E k \in op.failed : 3 + stats.stacks_generated < k /\ k <= op.issued

\* the logical photos whose representative Photo row points back at them
Persisted ==
    {l \in db.logical_photos :
        \E r \in PhotosOf(l) : r.id = l.representative_photo_id}

OneGroupSkipped ==
    /\ Cardinality(db.logical_photos) = stats.logical_photos - 1
    /\ Persisted = db.logical_photos

OthersHaveTargets ==
    /\ status.thumbnails_total = stats.logical_photos - 1
    /\ pc = "thumbs_gate" =>
          {targets[i].lp_id : i \in 1..Len(targets)} = Ids(db.logical_photos)

SummaryReturned ==
    /\ op.result # "fatal"
    /\ pc \in {"thumbs_gate", "thumbs", "returned", "idle"}
    /\ pc = "idle" => status.last_stats = Some(stats)

C20_GroupFailureSkipsThatGroupOnly ==
    GroupWriteFailed =>
        /\ stats.errors = 1
        /\ status.errors = 1
        /\ OneGroupSkipped
        /\ OthersHaveTargets
        /\ SummaryReturned

----------------------------------------------------------------------------
\* C21: at every point of a run error_log holds the first min(errors, 100)
\* messages in the order they occurred; its length never exceeds 100 while
\* errors counts every error.
C21_ErrorLogHoldsFirstHundred ==
    op.kind = "log_error" =>
        LET n == IF stats.errors < 100 THEN stats.errors ELSE 100
        IN /\ stats.errors = Len(op.messages)
           /\ Len(stats.error_log) = n
           /\ stats.error_log = SubSeq(op.messages, 1, n)

\* the log is full, and the errors past the hundredth differ from the last one kept
C21_Witness ==
    /\ op.kind = "log_error"
    /\ stats.errors = 102
    /\ Len(stats.error_log) = 100
    /\ stats.error_log[100] = "insert stack"
    /\ op.messages[101] = "insert photo"

----------------------------------------------------------------------------
\* C22: for a JPEG source the embedded preview is used if and only if it can
\* be extracted and decoded and its shorter side is at least 200 px; otherwise
\* the source is fully decoded, and if that also fails no thumbnail file is
\* produced.

\* the embedded preview of the source is there, decodes, and is large enough
PreviewAdequate ==
    LET e == fs[P1].embedded
    IN /\ is_some(e)
       /\ unwrap(e).decodes
       /\ unwrap(e).width >= 200
       /\ unwrap(e).height >= 200

MadeFrom(origin) == \E c \in cache : c.made_from = origin

C22_WitnessRejected ==
    /\ pc = "thumb_done"
    /\ fs[P1].embedded = Some(PreviewBytes(299, 199))
    /\ ~fs[P1].decodable
    /\ op.full_decode
    /\ cache = {}

----------------------------------------------------------------------------
\* C23: the representative of every Logical Photo is the JPEG file of its
\* group when the group has one and the RAW file otherwise; the capture time
\* used for clustering and the source used for the thumbnail are those of
\* that file.

\* the JPEG member of a group if it has one, else its RAW member
JpegElseRaw(g) == IF g.jpeg # None THEN g.jpeg[1] ELSE g.raw[1]

\* no timed group of asg lies strictly between the times t1 < t2
Adjacent(asg, t1, t2) ==
    /\ t1 < t2
    /\ \A k \in 1..Len(asg) :
          LET f == JpegElseRaw(asg[k][1])
          IN f.capture_time # None =>
                ~(t1 < f.capture_time[1] /\ f.capture_time[1] < t2)

\* the timed groups i and j of asg are not separated by a gap above the limit
Chained(asg, i, j, gap) ==
    LET ti == JpegElseRaw(asg[i][1]).capture_time[1]
        tj == JpegElseRaw(asg[j][1]).capture_time[1]
        lo == IF ti <= tj THEN ti ELSE tj
        hi == IF ti <= tj THEN tj ELSE ti
        times == {JpegElseRaw(asg[k][1]).capture_time[1] :
                     k \in {x \in 1..Len(asg) :
                               JpegElseRaw(asg[x][1]).capture_time # None}}
    IN \A t1, t2 \in times :
          (lo <= t1 /\ t2 <= hi /\ Adjacent(asg, t1, t2)) => t2 - t1 <= gap

ClusteredByRepresentative ==
    \A i, j \in 1..Len(assigned) :
        LET fi == JpegElseRaw(assigned[i][1])
            fj == JpegElseRaw(assigned[j][1])
        IN i # j =>
             IF fi.capture_time = None \/ fj.capture_time = None
             THEN assigned[i][2] # assigned[j][2]
             ELSE (assigned[i][2] = assigned[j][2])
                     <=> Chained(assigned, i, j, cfg.burst_gap_secs)

RepresentativeRow(l) == CHOOSE r \in db.photos : r.id = l.representative_photo_id

RowsUseRepresentative ==
    \A l \in db.logical_photos :
        /\ \E r \in db.photos : r.id = l.representative_photo_id
        /\ (\E r \in PhotosOf(l) : r.format = "jpeg")
              => RepresentativeRow(l).format = "jpeg"
        /\ \A i \in 1..Len(targets) :
              targets[i].lp_id = l.id => targets[i].path = RepresentativeRow(l).path
        /\ \A c \in cache : c.lp_id = l.id => c.source = RepresentativeRow(l).path

C23_RepresentativeIsJpegElseRaw ==
    /\ []((op.kind = "run" /\ pc = "persist") => ClusteredByRepresentative)
    /\ []((op.kind = "run" /\ pc \in {"thumbs_gate", "thumbs", "returned", "idle"}
            /\ op.result \in {"running", "completed"}) => RowsUseRepresentative)
    /\ [][(pc = "persist" /\ pc' = "thumbs_gate") =>
            /\ Len(targets') = Len(assigned)
            /\ \A i \in 1..Len(assigned) :
                  \E l \in db'.logical_photos, r \in db'.photos :
                      /\ r.id = l.representative_photo_id
                      /\ r.path = JpegElseRaw(assigned[i][1]).path
                      /\ targets'[i].lp_id = l.id
                      /\ targets'[i].path = r.path]_vars

\* a pair whose JPEG has no capture time and whose RAW was taken at second 0,
\* beside a JPEG taken at second 0: the pair is clustered as untimed, and its
\* thumbnail is made from the JPEG
C23_Witness ==
    /\ RunCompleted
    /\ op.fs[P1] = NoExif /\ op.fs[P2] = TakenAt(0) /\ op.fs[P3] = TakenAt(0)
    /\ stats.pairs_detected = 1
    /\ stats.logical_photos = 2
    /\ \E l1, l2 \in db.logical_photos :
          /\ RepresentativeRow(l1).path = P1
          /\ RepresentativeRow(l2).path = P3
          /\ l1.stack_id # l2.stack_id
    /\ \E c \in cache : c.source = P1

----------------------------------------------------------------------------
\* C24: for every non-empty input the stack indices returned by
\* assign_stacks_by_burst are exactly 0, 1, ..., k-1, k being the number of
\* distinct stacks: the smallest index is 0 and no index is skipped.
IndicesOf(a) == {a[i][2] : i \in 1..Len(a)}

C24_IndicesAreZeroBasedAndDense ==
    (pc = "stacks_done" /\ groups # <<>>) =>
        IndicesOf(assigned) = 0..(Cardinality(IndicesOf(assigned)) - 1)

\* the same for inputs with at least one timed group
C24_DenseWithTimedGroup ==
    (pc = "stacks_done" /\ \E i \in 1..Len(groups) : HasTime(groups[i])) =>
        IndicesOf(assigned) = 0..(Cardinality(IndicesOf(assigned)) - 1)

----------------------------------------------------------------------------
\* C25: stats.stacks_generated returned by run_pipeline, and the count returned
\* by restack_from_existing_photos, equal the number of distinct stacks that
\* own at least one Logical Photo after the operation.
C25_StacksGeneratedCountsOwningStacks ==
    (RunCompleted \/ RestackDone) =>
        stats.stacks_generated = Cardinality(OwningStackIds)

\* the same for a run or restack over photos of which one has a capture time
C25_CountWithTimedPhoto ==
    ((RunCompleted \/ RestackDone)
        /\ \E l \in db.logical_photos :
              \E r \in db.photos : /\ r.id = l.representative_photo_id
                                   /\ is_some(r.capture_time)) =>
        stats.stacks_generated = Cardinality(OwningStackIds)

----------------------------------------------------------------------------
\* C26: for a fixed set of photos the number of stacks never increases when
\* burst_gap_secs increases; with gap 0 any two photos with distinct capture
\* times are in different stacks, and with a gap at least as large as the
\* largest difference between consecutive capture times all timed photos share
\* one stack.
StackCount(a) == Cardinality(IndicesOf(a))

TimesOf(gs) == {unwrap(capture_time(gs[i])) : i \in {k \in 1..Len(gs) : HasTime(gs[k])}}

\* the differences between capture times that are neighbours in time order
ConsecutiveDifferences(gs) ==
    {t2 - t1 : <<t1, t2>> \in
        {p \in TimesOf(gs) \X TimesOf(gs) :
            /\ p[1] < p[2]
            /\ \A t \in TimesOf(gs) : ~(p[1] < t /\ t < p[2])}}

C26_StackCountMonotoneInGap ==
    pc = "stacks_done" =>
        /\ \A wider \in cfg.burst_gap_secs..(MaxStackGap + 1) :
              StackCount(assign_stacks_by_burst(groups, wider)) <= StackCount(assigned)
        /\ cfg.burst_gap_secs = 0 =>
              \A i, j \in TimedPositions(assigned) :
                  TimeAt(assigned, i) # TimeAt(assigned, j)
                      => assigned[i][2] # assigned[j][2]
        /\ (\A d \in ConsecutiveDifferences(groups) : d <= cfg.burst_gap_secs) =>
              \A i, j \in TimedPositions(assigned) : assigned[i][2] = assigned[j][2]

\* photos at seconds 0, 1 and 3: three stacks with gap 0, two with gap 1, one
\* with gap 2
C26_Witness ==
    /\ pc = "stacks_done"
    /\ TimesOf(groups) = {0, 1, 3}
    /\ cfg.burst_gap_secs = 1
    /\ StackCount(assign_stacks_by_burst(groups, 0)) = 3
    /\ StackCount(assigned) = 2
    /\ StackCount(assign_stacks_by_burst(groups, 2)) = 1

----------------------------------------------------------------------------
\* C27: restack_from_existing_photos groups Logical Photos exactly as
\* assign_stacks_by_burst does for the same representative capture times and
\* gap: two Logical Photos share a stack after a restack if and only if the
\* clusterer gives them the same stack index.

\* names that tell the representative files of the Logical Photos apart
LpNames == <<"lp1", "lp2", "lp3", "lp4", "lp5">>

\* the Logical Photo rows a restack loads when Logical Photo i has the
\* representative of groups[i]: (id, capture time as stored)
LpRowsOf(gs) ==
    [i \in 1..Len(gs) |->
        <<i, IF is_some(capture_time(gs[i]))
             THEN Some(to_rfc3339(unwrap(capture_time(gs[i])))) ELSE None>>]

\* the representative files of those Logical Photos, as single groups
RepGroupsOf(gs) ==
    [i \in 1..Len(gs) |->
        single_group([representative(gs[i]) EXCEPT
                         !.path = MkPath("tmp", LpNames[i], "jpg")])]

\* the index a list of (key, index) pairs gives to a key
IndexOfLp(asg, id) == (CHOOSE k \in Range(asg) : k[1] = id)[2]

IndexOfGroup(asg, name) ==
    (CHOOSE k \in Range(asg) : representative(k[1]).path.stem = name)[2]

C27_RestackGroupsAsClusterer ==
    pc = "stacks_done" =>
        LET restacked == RestackAssignments(LpRowsOf(groups), cfg.burst_gap_secs)
            clustered == assign_stacks_by_burst(RepGroupsOf(groups), cfg.burst_gap_secs)
        IN /\ Len(restacked) = Len(groups)
           /\ Len(clustered) = Len(groups)
           /\ \A i, j \in 1..Len(groups) :
                 (IndexOfLp(restacked, i) = IndexOfLp(restacked, j))
                    <=> (IndexOfGroup(clustered, LpNames[i])
                           = IndexOfGroup(clustered, LpNames[j]))

\* a chain 0, 1, 2 kept in one stack at gap 1 by both, beside an untimed photo
C27_Witness ==
    /\ pc = "stacks_done"
    /\ cfg.burst_gap_secs = 1
    /\ TimesOf(groups) = {0, 1, 2}
    /\ Len(groups) = 4
    /\ LET restacked == RestackAssignments(LpRowsOf(groups), 1)
       IN /\ StackCount(restacked) = 2
          /\ \E i, j \in 1..4 :
                /\ LpRowsOf(groups)[i][2] = Some(to_rfc3339(0))
                /\ LpRowsOf(groups)[j][2] = Some(to_rfc3339(2))
                /\ IndexOfLp(restacked, i) = IndexOfLp(restacked, j)

\* the same on the store: after a restack two Logical Photos have the same
\* stack_id exactly when the restack assignments of the rows as stored give
\* them the same index
C27_RestackedRowsShareStacks ==
    RestackDone =>
        LET restacked == RestackAssignments(
                             load_logical_photos_for_restack(db, ProjectId),
                             cfg.burst_gap_secs)
        IN \A l1, l2 \in db.logical_photos :
              (l1.stack_id = l2.stack_id)
                 <=> (IndexOfLp(restacked, l1.id) = IndexOfLp(restacked, l2.id))

----------------------------------------------------------------------------
\* C28: when the companion file of an already imported photo (same directory
\* and base name, other format) appears between two runs, the second completed
\* run yields one paired Logical Photo for the two files, counts only the new
\* file as imported, and leaves no separate Logical Photo for the old
\* singleton.

\* same directory and base name, the other format
Companions(p, q) ==
    /\ p.dir = q.dir
    /\ to_lowercase(p.stem) = to_lowercase(q.stem)
    /\ {detect_format(p), detect_format(q)} = {Some("jpeg"), Some("raw")}

\* at the start of the current run p was imported as a Logical Photo of its
\* own and q, unknown to the store, was on disk in one of the folders
CompanionAppeared(p, q) ==
    /\ Companions(p, q)
    /\ \E r \in pre.photos, l \in pre.logical_photos :
          /\ r.path = p
          /\ r.logical_photo_id = Some(l.id)
          /\ \A o \in pre.photos : o.logical_photo_id = Some(l.id) => o = r
    /\ \A r \in pre.photos : r.path # q
    /\ op.fs[q] # Absent
    /\ q.dir \in Range(cfg.folder_paths)

\* the files of the run that the store did not list as imported
NewToTheStore ==
    {f \in PhotoPaths :
        /\ f.dir \in Range(cfg.folder_paths)
        /\ op.fs[f] # Absent
        /\ f \notin list_photo_paths_for_project(pre, ProjectId)}

PairedLogicalPhoto(p, q) ==
    \E l \in db.logical_photos :
        /\ {r.path : r \in PhotosOf(l)} = {p, q}
        /\ Cardinality(PhotosOf(l)) = 2
        /\ RepresentativeRow(l).format = "jpeg"
        /\ \A m \in db.logical_photos :
              (\E r \in db.photos :
                  /\ r.path \in {p, q}
                  /\ r.id = m.representative_photo_id \/ r.logical_photo_id = Some(m.id))
                => m = l

C28_CompanionJoinsExistingPhoto ==
    \A p, q \in PhotoPaths :
        (RunCompleted /\ CompanionAppeared(p, q)) =>
            /\ PairedLogicalPhoto(p, q)
            /\ stats.pairs_detected >= 1
            /\ q \in NewToTheStore
            /\ p \notin NewToTheStore
            /\ stats.imported = Cardinality(NewToTheStore)

\* a.cr2 was imported alone; A.jpg appeared; the second run pairs them
C28_Witness ==
    /\ RunCompleted
    /\ runs = 2
    /\ CompanionAppeared(P2, P1)
    /\ PairedLogicalPhoto(P2, P1)
    /\ stats.imported = 1
    /\ stats.skipped_existing = 1
    /\ Cardinality(db.logical_photos) = 1

----------------------------------------------------------------------------
\* the cancel flag is set while a pool is at work
CancelledInPool == cancel /\ pc \in PoolStages

\* under a set flag no target is begun, and a target that is passed over gets
\* no file and no count
NoTargetBegunAfterCancel ==
    CancelledInPool =>
        /\ in_flight' \subseteq in_flight
        /\ targets' # targets => cache' = cache /\ done_counter' = done_counter

\* under a set flag a generation that was in progress writes its file and is
\* counted when its source can be read
BegunTargetIsCounted ==
    (CancelledInPool /\ in_flight' # in_flight) =>
        \E t \in in_flight :
            /\ in_flight' = in_flight \ {t}
            /\ generate_thumbnail(fs, t.path) =>
                   /\ t.lp_id \in cached_thumbnail_ids(cache')
                   /\ done_counter' = done_counter + 1

\* C29: once the cancel flag is set during the thumbnail stage no pool thread
\* begins a target it has not begun yet, and the targets it leaves get no
\* thumbnail, while every generation in progress comes to its end and is
\* counted
C29_NoTargetBegunAfterCancel ==
    /\ [][NoTargetBegunAfterCancel]_vars
    /\ [][BegunTargetIsCounted]_vars
    /\ (CancelledInPool /\ in_flight # {}) ~> (in_flight = {})

\* the flag is set with the generation of one target in progress: the other
\* target was passed over, nothing is written yet and every file is in place
C29_Witness ==
    /\ cancel
    /\ pc = "thumbs"
    /\ status.thumbnails_total = 2
    /\ Cardinality(in_flight) = 1
    /\ targets = <<>>
    /\ cache = {}
    /\ done_counter = 0
    /\ writes = 0

----------------------------------------------------------------------------
\* the run read the cancel flag set, at a checkpoint of a stage or for a
\* target inside the pool
CancelObserved == op.kind = "run" /\ op.seen_at # "none"

\* what the run returned and what the status holds once the worker is through
ReportsCancelled ==
    /\ pc = "returned" => stats.cancelled
    /\ pc = "idle" => /\ status.cancelled
                      /\ status.last_stats = Some(stats)
                      /\ stats.cancelled

\* C30: a run that stopped or passed over work because it read the cancel flag
\* set, at a stage checkpoint or for a target inside the pool, returns
\* statistics with cancelled = true and leaves status.cancelled = true
C30_ObservedCancelIsReported ==
    (CancelObserved /\ pc \in {"returned", "idle"}) => ReportsCancelled

\* the same for the checkpoints of the stages alone
C30_CheckpointCancelIsReported ==
    (CancelObserved /\ op.seen_at # "pool" /\ pc \in {"returned", "idle"}) => ReportsCancelled

----------------------------------------------------------------------------
\* the worker of a run is in the extraction loop or has just left it
InExtraction == op.kind = "run" /\ pc \in {"extract", "paused", "pair"}

\* the paths of the first k scanned files that the store did not know
NewPathsUpTo(k) ==
    LET firsts == SubSeq(scanned_paths, 1, k)
        fresh == SelectSeq(firsts, LAMBDA sp : sp.path \notin existing_paths)
    IN [i \in 1..Len(fresh) |-> fresh[i].path]

\* how many of the first k scanned files the store knew
KnownUpTo(k) == Cardinality({i \in 1..k : scanned_paths[i].path \in existing_paths})

\* the files before the cursor have been handled once each, in scan order
HandledOnceEach ==
    InExtraction =>
        /\ status.processed = cursor - 1
        /\ [i \in 1..Len(new_files) |-> new_files[i].path] = NewPathsUpTo(cursor - 1)
        /\ stats.skipped_existing = KnownUpTo(cursor - 1)
        /\ pc = "pair" => cursor = Len(scanned_paths) + 1

\* a step taken while the worker is in the extraction loop and the pause flag
\* is set extracts nothing and counts nothing
NothingBeginsWhilePaused ==
    (pause /\ pc \in {"extract", "paused"}) =>
        /\ status'.processed = status.processed
        /\ Len(new_files') <= Len(new_files)
        /\ stats'.skipped_existing = stats.skipped_existing
        /\ pc' \in {"extract", "paused"} => cursor' = cursor

\* the step that leaves the pause loop without a cancel handles the file the
\* worker was at
ResumesWithSameFile ==
    (pc = "paused" /\ pc' = "extract") =>
        /\ ~pause
        /\ cursor' = cursor + 1
        /\ status'.processed = status.processed + 1
        /\ cursor \in op.paused_at

\* C31: in the extraction stage no extraction begins and processed does not
\* advance while the pause flag is observed set; when it is cleared the worker
\* goes on with the same file, so that every scanned file is handled once
C31_PauseHoldsExtraction ==
    /\ []HandledOnceEach
    /\ [][NothingBeginsWhilePaused]_vars
    /\ [][ResumesWithSameFile]_vars

\* the worker paused before the second file, was resumed and has been through
\* all the files
C31_Witness ==
    /\ pc = "pair"
    /\ op.kind = "run"
    /\ op.paused_at = {2}
    /\ ~cancel
    /\ Len(new_files) = 3
    /\ status.processed = 3

----------------------------------------------------------------------------
\* the positions of the worker outside the extraction loop
OtherStages == {"scan", "existing", "pair", "cluster", "persist", "thumbs_gate", "thumbs"}

\* with the pause flag set the worker can take the step of the stage it is in
StageGoesOn ==
    pause =>
        /\ pc = "scan" => ENABLED ScanFolder
        /\ pc = "existing" => ENABLED LoadExistingPaths
        /\ pc = "pair" => ENABLED DetectPairsStage
        /\ pc = "cluster" => ENABLED AssignStacksStage
        /\ (pc = "persist" /\ cancel) => ENABLED CancelledReturn("persist")
        /\ (pc = "persist" /\ ~cancel) =>
               \E r \in {PersistResult({})} : ENABLED PersistApply(r, {})
        /\ pc = "thumbs_gate" => ENABLED ThumbnailGate
        /\ (pc = "thumbs" /\ targets # <<>>) => ENABLED GenerateThumbnail
        /\ (pc = "thumbs" /\ targets = <<>>) => ENABLED FinishRun

\* no step taken outside the extraction loop enters the pause loop
NoPauseLoopElsewhere == (pause /\ pc \in OtherStages) => pc' # "paused"

\* C32: the pause flag is read in the extraction stage only; a flag set while
\* the run scans, pairs, clusters, persists or generates thumbnails does not
\* hold that stage up
C32_PauseHoldsExtractionOnly ==
    /\ []StageGoesOn
    /\ [][NoPauseLoopElsewhere]_vars

\* a run went through persistence and the pool and came to its end with the
\* pause flag set after extraction and never cleared
C32_Witness ==
    /\ pc = "idle"
    /\ op.kind = "run"
    /\ op.result = "completed"
    /\ op.paused_at = {}
    /\ pause
    /\ ~cancel
    /\ Cardinality(cache) = 2

----------------------------------------------------------------------------
\* the supported files of the folders whose bytes make the readers panic
MalformedOnDisk == {p \in SupportedOnDisk : fs[p] = Malformed}

\* the Logical Photos whose representative file decodes
LpsThatDecode ==
    {l \in db.logical_photos :
        \E r \in db.photos : r.id = l.representative_photo_id
                             /\ generate_thumbnail(fs, r.path)}

\* C33: a file whose metadata extraction or thumbnail generation fails or
\* panics does not end the run and does not keep the other files from being
\* handled: the worker can always take the next step of the extraction loop
\* and of the pool, and after the run every supported file of the folders is a Photo row
\* of a Logical Photo, the row of the malformed file has no metadata, nothing
\* is counted as an error, and exactly the Logical Photos whose representative
\* decodes have a cached file
C33_MalformedFileIsImportedAlone ==
    /\ pc = "extract" => ENABLED ExtractFile
    /\ (pc = "thumbs" /\ targets # <<>>) => ENABLED GenerateThumbnail
    /\ (RunCompleted /\ pc = "idle") =>
        /\ SupportedOnDisk \subseteq {r.path : r \in db.photos}
        /\ \A r \in db.photos :
              /\ is_some(r.logical_photo_id)
              /\ fs[r.path] = Malformed =>
                    /\ r.capture_time = None /\ r.camera_model = None
                    /\ r.lens = None /\ r.orientation = None
              /\ fs[r.path] \notin {Malformed, NoExif} => r.capture_time # None
        /\ stats.errors = 0
        /\ status.processed = Cardinality(SupportedOnDisk)
        /\ cached_thumbnail_ids(cache) = Ids(LpsThatDecode)
        /\ done_counter = Cardinality(LpsThatDecode)

\* a run over both folders has ended: the malformed file d2/a.jpg is a Photo
\* row without a thumbnail, the pair of d1 has one
C33_Witness ==
    /\ RunCompleted
    /\ pc = "idle"
    /\ runs = 1
    /\ fs[P3] = Malformed
    /\ Cardinality(db.photos) = 3
    /\ Cardinality(db.logical_photos) = 2
    /\ Cardinality(cache) = 1

----------------------------------------------------------------------------
\* the thread is inside Mutex::lock of a mutex that another thread holds
Waiting(t) ==
    /\ calls[t].cmd # "none"
    /\ NextOp(t).do = "lock"
    /\ held[NextOp(t).m] # "nobody"

\* the threads of S wait for mutexes held inside S
Deadlocked(S) == \A t \in S : Waiting(t) /\ held[NextOp(t).m] \in S

\* a thread that takes db does not hold active_project
DbBeforeActiveProject ==
    \A t \in Threads :
        (held'["db"] = t /\ held["db"] # t) => held["active_project"] # t

\* C34: every command takes db before active_project, and no set of commands
\* and worker thread running at once comes to wait for one another on the
\* three mutexes
C34_LockOrderNoDeadlock ==
    /\ [][DbBeforeActiveProject]_vars
    /\ [](\A S \in SUBSET Threads : S # {} => ~Deadlocked(S))

\* resume_thumbnails holds the three mutexes while a second command waits for
\* db and the worker thread waits for indexing_status
C34_Witness ==
    /\ \A l \in Locks : held[l] = "ipc1"
    /\ calls["ipc1"].cmd = "resume_thumbnails"
    /\ Waiting("ipc2") /\ NextOp("ipc2").m = "db"
    /\ Waiting("worker")

----------------------------------------------------------------------------
\* the file <id>.jpg was made from the representative of the Logical Photo id
MadeFromRepresentative(c) ==
    \E l \in db.logical_photos :
        /\ l.id = c.lp_id
        /\ \E r \in db.photos : r.id = l.representative_photo_id /\ r.path = c.source

\* C35: at every moment each file <id>.jpg of the cache directory was derived
\* from the representative photo of the Logical Photo that has that id now
C35_CachedFileShowsItsLogicalPhoto == \A c \in cache : MadeFromRepresentative(c)

----------------------------------------------------------------------------
(* References between the rows of the store                                *)

PhotoRefersToLogicalPhoto(d, r) ==
    r.logical_photo_id = None \/ unwrap(r.logical_photo_id) \in Ids(d.logical_photos)

LogicalPhotoRefersToStack(d, l) ==
    /\ is_some(l.stack_id)
    /\ \E s \in d.stacks : s.id = unwrap(l.stack_id) /\ s.project_id = l.project_id

\* C36: after any sequence of runs and restacks, with or without a failed
\* statement, every Photo refers to no Logical Photo or to an existing one, and
\* every Logical Photo refers to an existing Stack of its project
C36_ReferencesExist ==
    /\ \A r \in db.photos : PhotoRefersToLogicalPhoto(db, r)
    /\ \A l \in db.logical_photos : LogicalPhotoRefersToStack(db, l)

\* aside to C36: no reference ever names a missing row; a Logical Photo that
\* refers to a Stack at all refers to an existing Stack of its project
C36_NoReferenceDangles ==
    /\ \A r \in db.photos : PhotoRefersToLogicalPhoto(db, r)
    /\ \A l \in db.logical_photos :
          is_some(l.stack_id) => LogicalPhotoRefersToStack(db, l)

----------------------------------------------------------------------------
(* resume_thumbnails after a cancelled run                                 *)

\* the pool of a resume has handled every target and the worker is about to end
ResumeWorkDone ==
    pc = "resume_thumbs" /\ op.kind = "resume" /\ targets = <<>> /\ in_flight = {}

\* the Logical Photos whose representative decodes
LpsWithDecodingSource ==
    {l \in LpsInStacks(db, ProjectId) :
        \E r \in db.photos : r.id = l.representative_photo_id /\ generate_thumbnail(fs, r.path)}

\* C37: when the last indexing run was ended by cancel_indexing, a resume that
\* has done its work has made the thumbnail of every Logical Photo whose source
\* decodes
C37_ResumeAfterCancelGenerates ==
    (ResumeWorkDone /\ status.cancelled) =>
        Ids(LpsWithDecodingSource) \subseteq cached_thumbnail_ids(cache)

\* aside to C37: a resume whose pool never reads the cancel flag set makes the
\* thumbnail of every target its finder returned whose source decodes (the
\* finder itself misses Logical Photos, see C15)
C37_ResumeWithoutCancelGenerates ==
    (ResumeWorkDone /\ ~cancel) =>
        (op.missing \cap Ids(LpsWithDecodingSource)) \subseteq cached_thumbnail_ids(cache)

----------------------------------------------------------------------------
(* stats.imported                                                          *)

\* the Photo rows the last run added to the store
RowsAddedByRun == {r \in db.photos : r.id \notin Ids(pre.photos)}

\* the last run completed and no step of its persistence logged an error
CompletedWithoutErrors ==
    pc = "idle" /\ op.kind = "run" /\ op.result = "completed" /\ stats.errors = 0

\* C38: on a completed run without persistence errors stats.imported is the
\* number of Photo rows the run added, whatever the list of source folders
C38_ImportedCountsAddedRows ==
    CompletedWithoutErrors => stats.imported = Cardinality(RowsAddedByRun)

----------------------------------------------------------------------------
(* status.running over the stages of a run                                 *)

\* the stages of a run up to and including persistence
StagesBeforeThumbnails == {"scan", "existing", "extract", "paused", "pair", "cluster", "persist"}

\* C39: while the run is in its scan, extraction, pairing, clustering or
\* persistence stage, get_indexing_status reports running = true
C39_RunningUntilPersisted ==
    pc \in StagesBeforeThumbnails => get_indexing_status.running

\* aside to C39: running falls only in the step in which the run of the
\* foreground worker finishes persistence or is marked as ended
C39_RunningFallsWithOwnRun ==
    [][(status.running /\ ~status'.running) =>
          \/ pc = "persist" /\ pc' = "thumbs_gate"
          \/ pc = "returned" /\ pc' = "idle"]_vars

----------------------------------------------------------------------------
(* Every run ends                                                          *)

\* a run started by start_indexing has not ended yet
RunInProgress == op.kind = "run" /\ pc # "idle"

\* the worker has returned and both flags are down
EndedWithFlagsDown == pc = "idle" /\ ~status.running /\ ~status.thumbnails_running

\* from some moment on the pause flag is clear or the cancel flag is set
PauseLetsGo == <>[](~pause \/ cancel)

\* C40: provided the pause flag is eventually cleared or the cancel flag is
\* set, every run that was started ends with status.running = false and
\* status.thumbnails_running = false, whichever way it ends
C40_EveryRunEnds == PauseLetsGo => (RunInProgress ~> EndedWithFlagsDown)

\* a run that was paused during extraction and cancelled before its thumbnail
\* stage has ended with both flags down
C40_Witness ==
    /\ EndedWithFlagsDown
    /\ op.kind = "run" /\ op.result = "cancelled" /\ op.seen_at = "thumbs"
    /\ op.paused_at # {}

\* so has a run whose worker could not open the store
C40_WitnessOpenFailed ==
    EndedWithFlagsDown /\ op.kind = "run" /\ op.result = "open failed"

\* and a run stopped by a failed clear
C40_WitnessFatal ==
    EndedWithFlagsDown /\ op.kind = "run" /\ op.result = "fatal"

====
